---- MODULE Spec2Model ----
(***************************************************************************)
(* A model of bplist.c, the binary property list codec of bpylist2.        *)
(*                                                                         *)
(* The two operations of the module, parse_plist and generate_plist, are   *)
(* pure functions of their input.  They are modelled as operators that     *)
(* compute, byte for byte, what the C code computes; the state machine     *)
(* applies them to inputs drawn from bounded sets.                         *)
(*                                                                         *)
(* 64-bit quantities (size_t, uint64_t, int64_t, pointers) are sequences   *)
(* of 8 bytes, most significant first, which is also their layout on the   *)
(* wire; arithmetic on them is modulo 2^64, as on the 64-bit targets the   *)
(* module is built for.                                                    *)
(***************************************************************************)
EXTENDS Integers, Sequences, FiniteSets, TLC

Byte == 0..255

(***************************************************************************)
(* 64-bit unsigned arithmetic on 8-byte big-endian sequences.              *)
(***************************************************************************)
Zero64 == <<0, 0, 0, 0, 0, 0, 0, 0>>

\* The uint64_t with value n, for 0 <= n < 2^31.
U64(n) ==
    <<0, 0, 0, 0, (n \div 16777216) % 256, (n \div 65536) % 256,
      (n \div 256) % 256, n % 256>>

\* Whether a is below 2^31, so that Nat64(a) is its value.
IsSmall64(a) ==
    a[1] = 0 /\ a[2] = 0 /\ a[3] = 0 /\ a[4] = 0 /\ a[5] < 128

Nat64(a) == ((a[5] * 256 + a[6]) * 256 + a[7]) * 256 + a[8]

RECURSIVE AddFrom(_, _, _, _)
\* Bytes i..1 of a + b + carry, as a sequence of i bytes (the carry out of
\* byte 1 is dropped: the sum is modulo 2^64).
AddFrom(a, b, i, carry) ==
    IF i = 0 THEN <<>>
    ELSE LET s == a[i] + b[i] + carry
         IN  Append(AddFrom(a, b, i - 1, s \div 256), s % 256)

Add64(a, b) == AddFrom(a, b, 8, 0)

RECURSIVE LtFrom(_, _, _)
LtFrom(a, b, i) ==
    IF i > Len(a) THEN FALSE
    ELSE IF a[i] # b[i] THEN a[i] < b[i]
    ELSE LtFrom(a, b, i + 1)

Lt64(a, b) == LtFrom(a, b, 1)
Le64(a, b) == a = b \/ Lt64(a, b)

\* Two's complement negation and subtraction, modulo 2^64.
Neg64(a) == Add64([i \in 1..8 |-> 255 - a[i]], U64(1))
Sub64(a, b) == Add64(a, Neg64(b))

\* a * k modulo 2^64 for k a power of two (the widths 1, 2, 4, 8 and their
\* doubles): repeated doubling.
RECURSIVE Mul64(_, _)
Mul64(a, k) ==
    IF k <= 1 THEN a ELSE LET h == Mul64(a, k \div 2) IN Add64(h, h)

\* The sign of a taken as int64_t / ssize_t.
IsNeg64(a) == a[1] >= 128

(***************************************************************************)
(* IEEE 754 double arithmetic, as far as generate_date and parse_date use  *)
(* it: the conversion of a uint64_t to double, the sum and difference of a *)
(* double and 978307200.0, and the conversion of a double to uint64_t,     *)
(* all in round-to-nearest-even.  Integers wider than 64 bits are 16-byte  *)
(* big-endian sequences.                                                   *)
(***************************************************************************)
WideZero == [i \in 1..16 |-> 0]
Wide(a) == [i \in 1..(16 - Len(a)) |-> 0] \o a
AddW(a, b) == AddFrom(a, b, 16, 0)
\* a - b, for a >= b
SubW(a, b) == AddFrom(a, [i \in 1..16 |-> 255 - b[i]], 16, 1)
LtW(a, b) == LtFrom(a, b, 1)

RECURSIVE MulFrom(_, _, _, _)
\* Bytes i..1 of a * c + carry, for a small factor c.
MulFrom(a, c, i, carry) ==
    IF i = 0 THEN <<>>
    ELSE LET s == (a[i] * c) + carry
         IN  Append(MulFrom(a, c, i - 1, s \div 256), s % 256)

\* a * 2^k, for a product below 2^128
Shl(a, k) ==
    LET n == k \div 8
    IN  MulFrom(SubSeq(a, n + 1, 16) \o [i \in 1..n |-> 0], 2 ^ (k % 8), 16, 0)

\* a \div 2^k
Shr(a, k) ==
    LET n == k \div 8
        c == 2 ^ (k % 8)
        t == [i \in 1..n |-> 0] \o SubSeq(a, 1, 16 - n)
    IN  [i \in 1..16 |->
            (((IF i > 1 THEN t[i - 1] % c ELSE 0) * 256) + t[i]) \div c] \o <<>>

\* Bit j of a, bit 0 being the least significant.
Bit(a, j) == (a[16 - (j \div 8)] \div (2 ^ (j % 8))) % 2

\* The number of leading zero bits of the byte b > 0.
clz8(b) ==
    IF b >= 128 THEN 0 ELSE IF b >= 64 THEN 1 ELSE IF b >= 32 THEN 2
    ELSE IF b >= 16 THEN 3 ELSE IF b >= 8 THEN 4 ELSE IF b >= 4 THEN 5
    ELSE IF b >= 2 THEN 6 ELSE 7

RECURSIVE clzFrom(_, _)
clzFrom(a, i) ==
    IF a[i] # 0 THEN 8 * (i - 1) + clz8(a[i]) ELSE clzFrom(a, i + 1)

\* The number of significant bits of the wide integer a.
BitLen(a) == IF a = WideZero THEN 0 ELSE 128 - clzFrom(a, 1)

\* a \div 2^r rounded to nearest, ties to even: up when the last bit shifted
\* out is set and either a bit below it or the last bit kept is.
RoundShift(a, r) ==
    LET q == Shr(a, r)
        guard == r >= 1 /\ Bit(a, r - 1) = 1
        sticky == \E j \in 0..(r - 2) : Bit(a, j) = 1
    IN  IF guard /\ (sticky \/ q[16] % 2 = 1) THEN AddW(q, Wide(<<1>>))
        ELSE q

\* The nearest m * 2^r to the wide integer a with m below 2^53.
Round53(a) ==
    LET L == BitLen(a)
    IN  IF L <= 53 THEN [m |-> a, r |-> 0]
        ELSE LET m == RoundShift(a, L - 53)
             IN  IF BitLen(m) = 54 THEN [m |-> Shr(m, 1), r |-> L - 53 + 1]
                 ELSE [m |-> m, r |-> L - 53]

\* The integer that the double nearest to the wide integer a holds.
RoundToDouble(a) == LET x == Round53(a) IN Shl(x.m, x.r)

\* The bits of the double (-1)^sign * m * 2^q, for 0 < m < 2^53 and a result
\* in the normal range.
EncodeDouble(sign, m, q) ==
    LET L == BitLen(m)
        m53 == Shl(m, 53 - L)
        E == q + L + 1022
    IN  <<sign * 128 + (E \div 16), ((E % 16) * 16) + (m53[10] % 16)>>
        \o SubSeq(m53, 11, 16)

\* unix2apple_epoch_delta = 978307200.0
unix2apple_epoch_delta == 978307200

\* (uint64_t)(bits - unix2apple_epoch_delta), the expression of
\* generate_date, with bits a uint64_t: bits is converted to double, the
\* difference is a double, and its conversion to uint64_t is undefined when
\* it is negative; cvt is what the build's conversion yields then ("wrap":
\* the two's complement of the truncated value, "zero", "ones").
date_payload(bits, cvt) ==
    LET what_we_want == RoundToDouble(Wide(bits))
        delta == Wide(U64(unix2apple_epoch_delta))
    IN  IF LtW(what_we_want, delta)
        THEN CASE cvt = "wrap" ->
                      Neg64(SubSeq(SubW(delta, what_we_want), 9, 16))
               [] cvt = "zero" -> Zero64
               [] OTHER -> [i \in 1..8 |-> 255]
        ELSE SubSeq(RoundToDouble(SubW(what_we_want, delta)), 9, 16)

\* The bits of unix2apple_epoch_delta + x, for the double x with bits bits.
add_epoch_delta(bits) ==
    LET sign == bits[1] \div 128
        e == ((bits[1] % 128) * 16) + (bits[2] \div 16)
        frac == <<bits[2] % 16>> \o SubSeq(bits, 3, 8)
        mant == IF e = 0 THEN frac ELSE <<frac[1] + 16>> \o Tail(frac)
        ex == (IF e = 0 THEN 1 ELSE e) - 1075
        delta == Wide(U64(unix2apple_epoch_delta))
    IN  IF e = 2047
        THEN IF frac = <<0, 0, 0, 0, 0, 0, 0>> THEN bits
             ELSE [bits EXCEPT ![2] = IF (@ \div 8) % 2 = 0 THEN @ + 8 ELSE @]
        ELSE IF ex >= 32 THEN bits
        ELSE IF ex <= -77 THEN EncodeDouble(0, delta, 0)
        ELSE
        LET A == IF ex >= 0 THEN Shl(Wide(mant), ex) ELSE Wide(mant)
            B == IF ex >= 0 THEN delta ELSE Shl(delta, -ex)
            q == IF ex >= 0 THEN 0 ELSE ex
            neg == sign = 1 /\ LtW(B, A)
            S == IF sign = 0 THEN AddW(A, B)
                 ELSE IF LtW(B, A) THEN SubW(A, B) ELSE SubW(B, A)
            r == Round53(S)
        IN  IF S = WideZero THEN Zero64
            ELSE EncodeDouble(IF neg THEN 1 ELSE 0, r.m, r.r + q)

(***************************************************************************)
(* Python values, as far as the codec tells them apart.  An int, a uid and *)
(* a float carry their 64-bit pattern (two's complement, unsigned, IEEE    *)
(* 754); a float decoded from a 4-byte float object carries the 4 bytes it *)
(* was widened from.                                                       *)
(***************************************************************************)
VBool(b) == [k |-> "bool", b |-> b]
VInt(i) == [k |-> "int", i |-> i]
VUid(u) == [k |-> "uid", u |-> u]
VFloat(bits) == [k |-> "float", bits |-> bits]
VFloat32(bits) == [k |-> "float", f32 |-> bits]
\* a bpylist.archive_types.timestamp, with the bits of its Unix-epoch seconds
VDate(bits) == [k |-> "date", bits |-> bits]
VBytes(s) == [k |-> "bytes", s |-> s]
VByteArray(s) == [k |-> "bytearray", s |-> s]
VStr(cps) == [k |-> "str", cps |-> cps]
VList(xs) == [k |-> "list", xs |-> xs]
VDict(kvs) == [k |-> "dict", kvs |-> kvs]
VNone == [k |-> "NoneType"]

(***************************************************************************)
(* enum plist_type                                                         *)
(***************************************************************************)
plist_type_primitive == 0
plist_type_false == 8
plist_type_true == 9
plist_type_int == 16
plist_type_int8 == 16
plist_type_int16 == 17
plist_type_int32 == 18
plist_type_int64 == 19
plist_type_float == 32
plist_type_float32 == 34
plist_type_float64 == 35
plist_type_date == 48
plist_type_data == 64
plist_type_ascii_string == 80
plist_type_utf16_string == 96
plist_type_uid == 128
plist_type_array == 160
plist_type_dict == 208

\* "bplist00"
bplist_header == <<98, 112, 108, 105, 115, 116, 48, 48>>
bplist_header_length == Len(bplist_header)

\* sizeof(bplist_trailer): 6 bytes of padding, two uint8_t, three uint64_t.
sizeof_bplist_trailer == 6 + 1 + 1 + 8 + 8 + 8

\* type & 0x0F and type & 0xF0
LowNibble(type) == type % 16
HighNibble(type) == (type \div 16) * 16

(***************************************************************************)
(* The input of parse_plist in memory: the bytes of the bytes object at    *)
(* address base.  A pointer is a 64-bit address.                           *)
(***************************************************************************)
Mem(data, base) == [data |-> data, base |-> base]

MemEnd(m) == Add64(m.base, U64(Len(m.data)))

\* Whether the w bytes at p all lie in the input.
InBuf(m, p, w) ==
    LET q == Add64(p, U64(w))
    IN  Le64(m.base, p) /\ Le64(p, q) /\ Le64(q, MemEnd(m))

\* The same for a 64-bit count.
InBuf64(m, p, n) == IsSmall64(n) /\ InBuf(m, p, Nat64(n))

\* The w bytes at p (InBuf(m, p, w) holds).
Peek(m, p, w) ==
    LET off == Nat64(Sub64(p, m.base))
    IN  SubSeq(m.data, off + 1, off + w)

\* Zero extension of 1, 2, 4 or 8 big-endian bytes to 64 bits.
ZeroExtend(bytes) == [i \in 1..(8 - Len(bytes)) |-> 0] \o bytes

(***************************************************************************)
(* PARSE                                                                   *)
(*                                                                         *)
(* The outcome of a (sub)parse:                                            *)
(*   st   "ok"        a value v was built                                  *)
(*        "error"     NULL was returned with the exception err set         *)
(*        "wild"      a byte outside the input was read: the behaviour is  *)
(*                    undefined from there on (a fault, or any value)      *)
(*        "overflow"  parse_plist_object was entered for an index that is  *)
(*                    already on its own call chain; the function depends  *)
(*                    on (state, index) only, so the recursion never       *)
(*                    returns and ends by exhausting the stack             *)
(*   oob  the decoders that read a byte outside [data, data + data_len)    *)
(*   dec  the objects decoded: <<index, offset>> for every index whose     *)
(*        marker byte was read at data + offset                            *)
(***************************************************************************)
POk(v) == [st |-> "ok", v |-> v, err |-> "", oob |-> {}, dec |-> {}]
PErr(e) == [st |-> "error", v |-> VNone, err |-> e, oob |-> {}, dec |-> {}]
PWild(who) ==
    [st |-> "wild", v |-> VNone, err |-> "", oob |-> {who}, dec |-> {}]
POverflow ==
    [st |-> "overflow", v |-> VNone, err |-> "", oob |-> {}, dec |-> {}]

\* r, after the work recorded in the earlier outcome q.
After(q, r) == [r EXCEPT !.oob = q.oob \cup @, !.dec = q.dec \cup @]

\* The number of bytes unpack_int reads for the marker int_width.
unpack_int_size(int_width) ==
    CASE int_width = plist_type_int32 -> 4
      [] int_width = plist_type_int16 -> 2
      [] int_width = plist_type_int8 -> 1
      [] OTHER -> 8

\* unpack_int on the bytes it reads: widths 1, 2, 4 are zero extended, width
\* 8 is the bit pattern.
unpack_int(int_width, bytes) == ZeroExtend(bytes)

\* The number of bytes unpack_uint reads for int_width.
unpack_uint_size(int_width) ==
    CASE int_width = 4 -> 4
      [] int_width = 2 -> 2
      [] int_width = 1 -> 1
      [] OTHER -> 8

unpack_uint(int_width, bytes) == ZeroExtend(bytes)

parse_int(m, type, object) ==
    LET w == unpack_int_size(type)
    IN  IF ~InBuf(m, object, w) THEN PWild("int")
        ELSE POk(VInt(unpack_int(type, Peek(m, object, w))))

parse_uid(m, type, object) ==
    LET width == LowNibble(type) + 1
        w == unpack_uint_size(width)
    IN  IF ~InBuf(m, object, w) THEN PWild("uid")
        ELSE POk(VUid(unpack_uint(width, Peek(m, object, w))))

parse_float32(m, object) ==
    IF ~InBuf(m, object, 4) THEN PWild("float")
    ELSE POk(VFloat32(Peek(m, object, 4)))

parse_float64(m, object) ==
    IF ~InBuf(m, object, 8) THEN PWild("float")
    ELSE POk(VFloat(Peek(m, object, 8)))

parse_date(m, object) ==
    IF ~InBuf(m, object, 8) THEN PWild("date")
    ELSE POk(VDate(add_epoch_delta(Peek(m, object, 8))))

(***************************************************************************)
(* unpack_length: the length in the marker's low nibble, or, for 0x0F, the *)
(* int object that follows.  Yields the length (an ssize_t), the advanced  *)
(* object pointer, and whether the reads stayed inside the input.          *)
(***************************************************************************)
unpack_length(m, type, object) ==
    IF LowNibble(type) # 15
    THEN [length |-> U64(LowNibble(type)), object |-> object, inside |-> TRUE]
    ELSE IF ~InBuf(m, object, 1)
    THEN [length |-> Zero64, object |-> object, inside |-> FALSE]
    ELSE LET int_type == Peek(m, object, 1)[1]
             int_width == 2 ^ LowNibble(int_type)
             p == Add64(object, U64(1))
             w == unpack_int_size(int_type)
         IN  IF ~InBuf(m, p, w)
             THEN [length |-> Zero64, object |-> p, inside |-> FALSE]
             ELSE [length |-> unpack_int(int_type, Peek(m, p, w)),
                   object |-> Add64(p, U64(int_width)),
                   inside |-> TRUE]

\* PyByteArray_FromStringAndSize(object, length)
parse_data(m, type, object0, object_end) ==
    LET ul == unpack_length(m, type, object0)
        object == ul.object
        length == ul.length
    IN  IF ~ul.inside THEN PWild("unpack_length")
        ELSE IF Lt64(Add64(object, length), object_end)
        THEN IF IsNeg64(length) THEN PErr("SystemError")
             ELSE IF ~InBuf64(m, object, length) THEN PWild("data")
             ELSE POk(VByteArray(Peek(m, object, Nat64(length))))
        ELSE PErr("invalid data length")

\* PyUnicode_DecodeASCII(object, length, NULL)
parse_ascii_string(m, type, object0, object_end) ==
    LET ul == unpack_length(m, type, object0)
        object == ul.object
        length == ul.length
    IN  IF ~ul.inside THEN PWild("unpack_length")
        ELSE IF Lt64(Add64(object, length), object_end)
        THEN IF IsNeg64(length) THEN PErr("SystemError")
             ELSE IF ~InBuf64(m, object, length) THEN PWild("ascii")
             ELSE LET bytes == Peek(m, object, Nat64(length))
                  IN  IF \E i \in 1..Len(bytes) : bytes[i] > 127
                      THEN PErr("UnicodeDecodeError")
                      ELSE POk(VStr(bytes))
        ELSE PErr("invalid ascii length")

IsHighSurrogate(u) == 55296 <= u /\ u <= 56319
IsLowSurrogate(u) == 56320 <= u /\ u <= 57343

RECURSIVE DecodeUTF16(_, _)
\* The code points of the big-endian UTF-16 code units in bytes from unit i
\* on, or <<-1>> at the end of what was decoded when a surrogate is unpaired.
DecodeUTF16(bytes, i) ==
    IF 2 * i > Len(bytes) THEN <<>>
    ELSE LET u == bytes[2 * i - 1] * 256 + bytes[2 * i]
         IN  IF IsHighSurrogate(u)
             THEN IF 2 * (i + 1) > Len(bytes) THEN <<-1>>
                  ELSE LET l == bytes[2 * i + 1] * 256 + bytes[2 * i + 2]
                       IN  IF IsLowSurrogate(l)
                           THEN <<65536 + (u - 55296) * 1024 + (l - 56320)>>
                                \o DecodeUTF16(bytes, i + 2)
                           ELSE <<-1>>
             ELSE IF IsLowSurrogate(u) THEN <<-1>>
             ELSE <<u>> \o DecodeUTF16(bytes, i + 1)

\* PyUnicode_DecodeUTF16(object, length, NULL, &byte_order), big endian
parse_utf16_string(m, type, object0, object_end) ==
    LET ul == unpack_length(m, type, object0)
        object == ul.object
        length == Mul64(ul.length, 2)
    IN  IF ~ul.inside THEN PWild("unpack_length")
        ELSE IF Lt64(Add64(object, length), object_end)
        THEN IF IsNeg64(length) THEN PErr("SystemError")
             ELSE IF ~InBuf64(m, object, length) THEN PWild("utf16")
             ELSE LET cps == DecodeUTF16(Peek(m, object, Nat64(length)), 1)
                  IN  IF \E i \in 1..Len(cps) : cps[i] = -1
                      THEN PErr("UnicodeDecodeError")
                      ELSE POk(VStr(cps))
        ELSE PErr("invalid utf16 length")

(***************************************************************************)
(* Python's dict, as the sequence of its <<key, value>> entries in         *)
(* insertion order.  list, dict and bytearray keys are unhashable.  Keys   *)
(* are equal when they are the same value; bool, int and uid keys (all     *)
(* int) are equal when their integers are.                                 *)
(***************************************************************************)
Hashable(key) == key.k \notin {"list", "dict", "bytearray"}

IntOfKey(key) ==
    CASE key.k = "bool" -> IF key.b THEN U64(1) ELSE Zero64
      [] key.k = "int" -> key.i
      [] key.k = "uid" -> key.u

KeyEq(a, b) ==
    \/ a = b
    \/ /\ a.k \in {"bool", "int", "uid"}
       /\ b.k \in {"bool", "int", "uid"}
       /\ IntOfKey(a) = IntOfKey(b)

\* PyDict_SetItem(dict, key, val), for a hashable key
PyDict_SetItem(kvs, key, val) ==
    IF \E i \in 1..Len(kvs) : KeyEq(kvs[i][1], key)
    THEN [i \in 1..Len(kvs) |->
             IF KeyEq(kvs[i][1], key) THEN <<kvs[i][1], val>> ELSE kvs[i]]
    ELSE Append(kvs, <<key, val>>)

\* PY_SSIZE_T_MAX / sizeof(PyObject*) = 2^60 - 1: PyList_New(size) fails for
\* a negative size (SystemError) and for a size above it (MemoryError).
PyList_New_error(size) ==
    IF IsNeg64(size) THEN "SystemError"
    ELSE IF size[1] >= 16 THEN "MemoryError"
    ELSE ""

RECURSIVE parse_plist_object(_, _, _, _)
RECURSIVE parse_array_items(_, _, _, _, _, _, _)
RECURSIVE parse_dict_items(_, _, _, _, _, _, _, _)

\* The for loop of parse_array from item i on; acc is the outcome so far,
\* the list of the items decoded and what decoding them recorded.
parse_array_items(state, m, object, length, i, path, acc) ==
    IF ~Lt64(U64(i), length) THEN acc
    ELSE
    LET ref == Add64(object, Mul64(U64(i), state.ref_size))
        w == unpack_uint_size(state.ref_size)
    IN  IF ~InBuf(m, ref, w) THEN After(acc, PWild("array"))
        ELSE
        LET list_obj_index == unpack_uint(state.ref_size, Peek(m, ref, w))
            list_obj == parse_plist_object(state, m, list_obj_index, path)
        IN  IF list_obj.st # "ok" THEN After(acc, list_obj)
            ELSE parse_array_items(state, m, object, length, i + 1, path,
                     After(list_obj,
                           [acc EXCEPT !.v = VList(Append(@.xs, list_obj.v))]))

parse_array(state, m, type, object0, object_end, path) ==
    LET ul == unpack_length(m, type, object0)
        object == ul.object
        slength == ul.length
        ref_size == state.ref_size
    IN  IF ~ul.inside THEN PWild("unpack_length")
        ELSE IF Lt64(object_end, Add64(object, Mul64(slength, ref_size)))
        THEN PErr("invalid array length")
        ELSE IF PyList_New_error(slength) # ""
        THEN PErr(PyList_New_error(slength))
        ELSE parse_array_items(state, m, object, slength, 0, path,
                               POk(VList(<<>>)))

\* The for loop of parse_dict from entry i on.
parse_dict_items(state, m, key_object0, val_object0, length, i, path, acc) ==
    IF ~Lt64(U64(i), length) THEN acc
    ELSE
    LET step == Mul64(U64(i), state.ref_size)
        key_object == Add64(key_object0, step)
        val_object == Add64(val_object0, step)
        w == unpack_uint_size(state.ref_size)
    IN  IF ~InBuf(m, key_object, w) \/ ~InBuf(m, val_object, w)
        THEN After(acc, PWild("dict"))
        ELSE
        LET key_obj_index == unpack_uint(state.ref_size, Peek(m, key_object, w))
            val_obj_index == unpack_uint(state.ref_size, Peek(m, val_object, w))
            key_obj == parse_plist_object(state, m, key_obj_index, path)
        IN  IF key_obj.st \in {"wild", "overflow"} THEN After(acc, key_obj)
            ELSE
            LET val_obj == After(key_obj,
                    parse_plist_object(state, m, val_obj_index, path))
            IN  IF val_obj.st # "ok" THEN After(acc, val_obj)
                ELSE IF key_obj.st # "ok"
                THEN After(acc, After(val_obj, PErr(key_obj.err)))
                ELSE IF ~Hashable(key_obj.v)
                THEN After(acc, After(val_obj, PErr("TypeError")))
                ELSE parse_dict_items(state, m, key_object0, val_object0,
                         length, i + 1, path,
                         After(val_obj,
                               [acc EXCEPT !.v = VDict(PyDict_SetItem(
                                    @.kvs, key_obj.v, val_obj.v))]))

parse_dict(state, m, type, object0, object_end, path) ==
    LET ul == unpack_length(m, type, object0)
        object == ul.object
        length == ul.length
        ref_size == state.ref_size
    IN  IF ~ul.inside THEN PWild("unpack_length")
        ELSE IF Lt64(object_end,
                     Add64(object, Mul64(Mul64(length, ref_size), 2)))
        THEN PErr("invalid dict length")
        ELSE parse_dict_items(state, m, object,
                              Add64(object, Mul64(length, state.ref_size)),
                              length, 0, path, POk(VDict(<<>>)))

\* path: the indexes whose parse_plist_object calls are on the stack.
parse_plist_object(state, m, object_index, path) ==
    IF object_index \in path THEN POverflow
    ELSE
    LET object_ref ==
            Add64(state.offset_table, Mul64(object_index, state.offset_size))
        w == unpack_uint_size(state.offset_size)
    IN  IF Le64(object_ref, state.data) \/ Le64(state.data_end, object_ref)
        THEN PErr("invalid object index")
        ELSE IF ~InBuf(m, object_ref, w) THEN PWild("offset_table")
        ELSE
        LET offset == unpack_uint(state.offset_size, Peek(m, object_ref, w))
            object0 == Add64(state.data, offset)
        IN  IF Le64(object0, state.data) \/ Le64(state.data_end, object0)
            THEN PErr("object out of bounds")
            ELSE IF ~InBuf(m, object0, 1) THEN PWild("marker")
            ELSE
            LET object_type == Peek(m, object0, 1)[1]
                object == Add64(object0, U64(1))
                sub == path \cup {object_index}
                tag == HighNibble(object_type)
                here == [POk(VNone) EXCEPT
                            !.dec = {<<object_index, offset>>}]
            IN  After(here,
                CASE tag = plist_type_int ->
                        parse_int(m, object_type, object)
                  [] tag = plist_type_uid ->
                        parse_uid(m, object_type, object)
                  [] tag = plist_type_ascii_string ->
                        parse_ascii_string(m, object_type, object,
                                           state.data_end)
                  [] tag = plist_type_utf16_string ->
                        parse_utf16_string(m, object_type, object,
                                           state.data_end)
                  [] tag = plist_type_data ->
                        parse_data(m, object_type, object, state.data_end)
                  [] tag = plist_type_dict ->
                        parse_dict(state, m, object_type, object,
                                   state.data_end, sub)
                  [] tag = plist_type_array ->
                        parse_array(state, m, object_type, object,
                                    state.data_end, sub)
                  [] tag = plist_type_primitive /\ object_type = plist_type_false ->
                        POk(VBool(FALSE))
                  [] tag = plist_type_primitive /\ object_type = plist_type_true ->
                        POk(VBool(TRUE))
                  [] tag = plist_type_float /\ object_type = plist_type_float64 ->
                        parse_float64(m, object)
                  [] tag = plist_type_float /\ object_type = plist_type_float32 ->
                        parse_float32(m, object)
                  [] tag = plist_type_date -> parse_date(m, object)
                  [] OTHER -> PErr("unknown type"))

check_int_width(width) == width \in {1, 2, 4, 8}

\* strncmp(signed_data, bplist_header, bplist_header_length): the number of
\* characters compared, up to and including the first that differs.  The
\* bytes object ends with a NUL at index data_len, which differs from every
\* character of the header.
RECURSIVE strncmp_reads(_, _)
strncmp_reads(data, i) ==
    IF i > bplist_header_length THEN bplist_header_length
    ELSE IF i > Len(data) THEN i
    ELSE IF data[i] # bplist_header[i] THEN i
    ELSE strncmp_reads(data, i + 1)

\* The comparison of the header over the bytes the input has.
strncmp_equal_available(data) ==
    \A i \in 1..bplist_header_length :
        i <= Len(data) => data[i] = bplist_header[i]

strncmp_equal(data) ==
    /\ Len(data) >= bplist_header_length
    /\ SubSeq(data, 1, bplist_header_length) = bplist_header

\* The fields of the trailer in the last 32 bytes of data.
trailer_of(data) ==
    LET t == Len(data) - sizeof_bplist_trailer
    IN  [offset_size |-> data[t + 7],
         ref_size |-> data[t + 8],
         num_objects |-> SubSeq(data, t + 9, t + 16),
         top_object |-> SubSeq(data, t + 17, t + 24),
         offset_table_offset |-> SubSeq(data, t + 25, t + 32)]

parse_plist(data, base) ==
    LET m == Mem(data, base)
        hdr == [POk(VNone) EXCEPT
                   !.oob = IF strncmp_reads(data, 1) > Len(data)
                           THEN {"header"} ELSE {}]
    IN  IF ~strncmp_equal(data) THEN After(hdr, PErr("invalid header"))
        ELSE IF Len(data) < bplist_header_length + sizeof_bplist_trailer
        THEN After(hdr, PErr("too short"))
        ELSE
        LET data_end == MemEnd(m)
            trailer == trailer_of(data)
            state == [data |-> base,
                      data_end |-> Sub64(data_end, U64(sizeof_bplist_trailer)),
                      ref_size |-> trailer.ref_size,
                      offset_size |-> trailer.offset_size,
                      object_count |-> trailer.num_objects,
                      offset_table |-> Add64(base, trailer.offset_table_offset)]
        IN  IF ~check_int_width(state.offset_size)
            THEN PErr("invalid offset_size")
            ELSE IF ~check_int_width(state.ref_size)
            THEN PErr("invalid ref_size")
            ELSE IF Lt64(state.data_end, state.offset_table)
            THEN PErr("offset_table out of bounds")
            ELSE parse_plist_object(state, m, trailer.top_object, {})

(***************************************************************************)
(* GENERATE                                                                *)
(*                                                                         *)
(* bplist_generate_state.  objects holds the bytes from state->objects up  *)
(* to state->current_object (a byte reserved and not yet written is 0),    *)
(* cap is objects_end - objects; offsets holds the entries from            *)
(* state->offsets up to state->current_offset, offcap is offsets_end -     *)
(* offsets.  rc is the return code of the generate_* function that ran     *)
(* last, err the exception it set.  ub is set by a write outside           *)
(* [objects, objects_end): the behaviour is undefined from there on.       *)
(* clz0 is what __builtin_clzll(0), which is undefined, yields in the      *)
(* build at hand, and cvt what the conversion of a negative double to      *)
(* uint64_t, also undefined, yields.                                       *)
(***************************************************************************)
Stopped(st) == st.rc # 0 \/ st.ub

Fail(st, rc, err) == [st EXCEPT !.rc = rc, !.err = err]

\* A write of bytes at offset pos of the object buffer.
WriteAt(st, pos, bytes) ==
    IF pos + Len(bytes) > st.cap THEN [st EXCEPT !.ub = TRUE]
    ELSE [st EXCEPT !.objects =
             [i \in 1..Len(@) |->
                 IF pos < i /\ i <= pos + Len(bytes) THEN bytes[i - pos]
                 ELSE @[i]]]

\* *state->current_object++ = ..., for each byte of bytes
Put(st, bytes) ==
    IF Len(st.objects) + Len(bytes) > st.cap THEN [st EXCEPT !.ub = TRUE]
    ELSE [st EXCEPT !.objects = @ \o bytes]

\* state->current_object += n
Reserve(st, n) == [st EXCEPT !.objects = @ \o [i \in 1..n |-> 0]]

\* __builtin_clzll(a), for a # 0
clzll(a) == clzFrom(a, 1)

\* The low w bytes of a, big endian: what pack_uint and pack_int store.
LowBytes(a, w) == SubSeq(a, 9 - w, 8)

\* pack_int with the four-byte class one bit too wide.
pack_int_wide(st, int_val) ==
    LET swappy == int_val
        int_width == IF swappy = Zero64 THEN 64 ELSE clzll(swappy)
    IN  IF int_width <= 31
        THEN Put(st, <<plist_type_int64>> \o LowBytes(swappy, 8))
        ELSE IF int_width <= 48
        THEN Put(st, <<plist_type_int32>> \o LowBytes(swappy, 4))
        ELSE IF int_width <= 55
        THEN Put(st, <<plist_type_int16>> \o LowBytes(swappy, 2))
        ELSE Put(st, <<plist_type_int8>> \o LowBytes(swappy, 1))

pack_int(st, int_val) ==
    LET swappy == int_val
        int_width == IF swappy = Zero64 THEN 64 ELSE clzll(swappy)
    IN  IF int_width <= 31
        THEN Put(st, <<plist_type_int64>> \o LowBytes(swappy, 8))
        ELSE IF int_width <= 47
        THEN Put(st, <<plist_type_int32>> \o LowBytes(swappy, 4))
        ELSE IF int_width <= 55
        THEN Put(st, <<plist_type_int16>> \o LowBytes(swappy, 2))
        ELSE Put(st, <<plist_type_int8>> \o LowBytes(swappy, 1))

\* The bytes pack_uint stores at current_object; any other width aborts.
pack_uint(int_width, int_val) == LowBytes(int_val, int_width)

\* PyLong_AsSsize_t of an int or a bool
PyLong_AsSsize_t(py_obj) ==
    IF py_obj.k = "bool" THEN (IF py_obj.b THEN U64(1) ELSE Zero64)
    ELSE py_obj.i

generate_int(st, py_obj) == pack_int(st, PyLong_AsSsize_t(py_obj))

\* A uid taken by the integer check: written as the int of its value.
generate_uid_as_int(st, py_obj) == pack_int(st, py_obj.u)

generate_uid(st, py_obj) ==
    LET uid_val == py_obj.u
        int_width == IF uid_val = Zero64 THEN st.clz0 ELSE clzll(uid_val)
    IN  IF int_width <= 31
        THEN Put(st, <<plist_type_uid + 7>> \o LowBytes(uid_val, 8))
        ELSE IF int_width <= 47
        THEN Put(st, <<plist_type_uid + 3>> \o LowBytes(uid_val, 4))
        ELSE IF int_width <= 55
        THEN Put(st, <<plist_type_uid + 1>> \o LowBytes(uid_val, 2))
        ELSE Put(st, <<plist_type_uid + 0>> \o LowBytes(uid_val, 1))

generate_float(st, py_obj) ==
    Put(st, <<plist_type_float64>> \o py_obj.bits)

generate_date(st, py_obj) ==
    Put(st, <<plist_type_date>> \o date_payload(py_obj.bits, st.cvt))

pack_type_and_length(st, type, length) ==
    IF length < 15 THEN Put(st, <<type + length>>)
    ELSE pack_int(Put(st, <<type + 15>>), U64(length))

\* resize_plist_buffer(state, new_length): _PyBytes_Resize, which keeps the
\* bytes and the offset of current_object.
resize_plist_buffer(st, new_length) == [st EXCEPT !.cap = new_length]

\* remaining_space is a size_t: with current_object past objects_end it is
\* huge, and nothing is resized.
resize_plist_if_needed(st, required_space) ==
    IF Len(st.objects) <= st.cap /\ st.cap - Len(st.objects) < required_space
    THEN resize_plist_buffer(st, st.cap * 2)
    ELSE st

grow_offset_table_buffer_if_needed(st) ==
    IF st.offcap - Len(st.offsets) >= st.trailer.offset_size THEN st
    ELSE [st EXCEPT !.offcap = @ * 2]

\* pack_data on the bytes of py_obj
pack_data(st, bytes, type) ==
    LET s1 == pack_type_and_length(st, type, Len(bytes))
        s2 == resize_plist_if_needed(s1, Len(bytes))
    IN  Put(s2, bytes)

generate_data(st, py_obj) == pack_data(st, py_obj.s, plist_type_data)

\* PyUnicode_AsASCIIString fails on a code point above 0x7F.
generate_ascii(st, py_obj) ==
    IF \E i \in 1..Len(py_obj.cps) : py_obj.cps[i] > 127
    THEN Fail(st, -1, "UnicodeEncodeError")
    ELSE pack_data(st, py_obj.cps, plist_type_ascii_string)

RECURSIVE EncodeUTF16(_, _)
\* The big-endian UTF-16 bytes of the code points cps from the i-th on.
EncodeUTF16(cps, i) ==
    IF i > Len(cps) THEN <<>>
    ELSE LET c == cps[i]
         IN  IF c < 65536
             THEN <<c \div 256, c % 256>> \o EncodeUTF16(cps, i + 1)
             ELSE LET h == 55296 + ((c - 65536) \div 1024)
                      l == 56320 + ((c - 65536) % 1024)
                  IN  <<h \div 256, h % 256, l \div 256, l % 256>>
                      \o EncodeUTF16(cps, i + 1)

\* codecs.getencoder("utf-16be") refuses a surrogate code point.
generate_utf16(st, py_obj) ==
    IF \E i \in 1..Len(py_obj.cps) :
           IsHighSurrogate(py_obj.cps[i]) \/ IsLowSurrogate(py_obj.cps[i])
    THEN Fail(st, -1, "UnicodeEncodeError")
    ELSE LET bytes == EncodeUTF16(py_obj.cps, 1)
             length == Len(bytes)
             s1 == pack_type_and_length(st, plist_type_utf16_string,
                                        length \div 2)
             s2 == resize_plist_if_needed(s1, length)
         IN  Put(s2, bytes)

\* PyUnicode_KIND(py_obj) == PyUnicode_1BYTE_KIND: no code point above 0xFF
PyUnicode_1BYTE_KIND(py_obj) ==
    \A i \in 1..Len(py_obj.cps) : py_obj.cps[i] <= 255

generate_string(st, py_obj) ==
    IF PyUnicode_1BYTE_KIND(py_obj) THEN generate_ascii(st, py_obj)
    ELSE generate_utf16(st, py_obj)

\* (1 << 16) - 1: the object count at which generate_plist_object gives up
ref_overflow_count == 65535

\* The size of an entry of state->offsets.
sizeof_uint32_t == 4

RECURSIVE generate_plist_object(_, _)
RECURSIVE generate_array_items(_, _, _, _)
RECURSIVE generate_dict_items(_, _, _, _, _)

\* The loop of generate_array with the slot filled after the child has
\* returned, from the count of objects less one.
RECURSIVE generate_array_items_after(_, _, _, _)
generate_array_items_after(st, py_obj, i, current_object_offset) ==
    IF i > Len(py_obj.xs) THEN st
    ELSE
    LET ref_size == st.trailer.ref_size
        s1 == generate_plist_object(st, py_obj.xs[i])
        s2 == WriteAt(s1, current_object_offset,
                      pack_uint(ref_size, U64(s1.trailer.num_objects - 1)))
    IN  IF Stopped(s1) THEN s1
        ELSE IF s2.ub THEN s2
        ELSE generate_array_items_after(s2, py_obj, i + 1,
                                        current_object_offset + ref_size)

\* The for loop of generate_array from item i on (1-based);
\* current_object_offset is the offset of the reference slot of item i.
generate_array_items(st, py_obj, i, current_object_offset) ==
    IF i > Len(py_obj.xs) THEN st
    ELSE
    LET ref_size == st.trailer.ref_size
        s1 == WriteAt(st, current_object_offset,
                      pack_uint(ref_size, U64(st.trailer.num_objects)))
        s2 == generate_plist_object(s1, py_obj.xs[i])
    IN  IF s1.ub THEN s1
        ELSE IF Stopped(s2) THEN s2
        ELSE generate_array_items(s2, py_obj, i + 1,
                                  current_object_offset + ref_size)

generate_array(st, py_obj) ==
    LET length == Len(py_obj.xs)
        s1 == pack_type_and_length(st, plist_type_array, length)
        ref_size == s1.trailer.ref_size
        ref_length == ref_size * length
        s2 == resize_plist_if_needed(s1, ref_length)
        current_object_offset == Len(s2.objects)
    IN  IF s1.ub THEN s1
        ELSE generate_array_items(Reserve(s2, ref_length), py_obj, 1,
                                  current_object_offset)

\* The while loop of generate_dict from the i-th entry of PyDict_Next on.
generate_dict_items(st, py_obj, i, key_ref_offset, val_ref_offset) ==
    IF i > Len(py_obj.kvs) THEN st
    ELSE
    LET ref_size == st.trailer.ref_size
        key == py_obj.kvs[i][1]
        val == py_obj.kvs[i][2]
        s1 == WriteAt(st, key_ref_offset,
                      pack_uint(ref_size, U64(st.trailer.num_objects)))
        s2 == generate_plist_object(s1, key)
        s3 == WriteAt(s2, val_ref_offset,
                      pack_uint(ref_size, U64(s2.trailer.num_objects)))
        s4 == generate_plist_object(s3, val)
    IN  IF s1.ub THEN s1
        ELSE IF Stopped(s2) THEN s2
        ELSE IF s3.ub THEN s3
        ELSE IF Stopped(s4) THEN s4
        ELSE generate_dict_items(s4, py_obj, i + 1,
                                 key_ref_offset + ref_size,
                                 val_ref_offset + ref_size)

generate_dict(st, py_obj) ==
    LET length == Len(py_obj.kvs)
        s1 == pack_type_and_length(st, plist_type_dict, length)
        ref_size == s1.trailer.ref_size
        ref_length == ref_size * length
        s2 == resize_plist_if_needed(s1, ref_length * 2)
        key_ref_offset == Len(s2.objects)
        val_ref_offset == key_ref_offset + ref_length
    IN  IF s1.ub THEN s1
        ELSE generate_dict_items(Reserve(s2, ref_length * 2), py_obj, 1,
                                 key_ref_offset, val_ref_offset)

\* PyLong_Check: int and its subclasses, bool among them (a uid, also an
\* int, is taken by the test before it)
PyLong_Check(py_obj) == py_obj.k \in {"int", "bool"}

generate_plist_object(st, py_obj) ==
    LET s1 == grow_offset_table_buffer_if_needed(st)
        s2 == [s1 EXCEPT !.offsets = Append(@, Len(s1.objects)),
                         !.trailer.num_objects = @ + 1]
        s3 == resize_plist_if_needed(s2, 32)
    IN  IF s2.trailer.num_objects = ref_overflow_count THEN Fail(s2, 1, "")
        ELSE IF py_obj.k = "uid" THEN generate_uid(s3, py_obj)
        ELSE IF PyLong_Check(py_obj) THEN generate_int(s3, py_obj)
        ELSE IF py_obj.k = "str" THEN generate_string(s3, py_obj)
        ELSE IF py_obj.k = "bytes" THEN generate_data(s3, py_obj)
        ELSE IF py_obj.k = "dict" THEN generate_dict(s3, py_obj)
        ELSE IF py_obj.k = "list" THEN generate_array(s3, py_obj)
        ELSE IF py_obj.k = "bool"
        THEN Put(s3, <<IF py_obj.b THEN plist_type_true ELSE plist_type_false>>)
        ELSE IF py_obj.k = "date" THEN generate_date(s3, py_obj)
        ELSE IF py_obj.k = "float" THEN generate_float(s3, py_obj)
        ELSE Fail(s3, -1, "unsupported")

\* offset_size_for with every <= replaced by <.
offset_size_for_strict(objects_length) ==
    IF Lt64(objects_length, U64(255)) THEN 1
    ELSE IF Lt64(objects_length, U64(65535)) THEN 2
    ELSE IF Lt64(objects_length, <<0, 0, 0, 0, 255, 255, 255, 255>>) THEN 4
    ELSE 0

\* The offset_size for an object region of objects_length bytes (a size_t),
\* 0 when the region is too large.
offset_size_for(objects_length) ==
    IF Le64(objects_length, U64(255)) THEN 1
    ELSE IF Le64(objects_length, U64(65535)) THEN 2
    ELSE IF Le64(objects_length, <<0, 0, 0, 0, 255, 255, 255, 255>>) THEN 4
    ELSE 0

RECURSIVE pack_offsets_past_header(_, _, _)
\* The offset table with each offset counted from the end of the header.
pack_offsets_past_header(offsets, offset_size, i) ==
    IF i > Len(offsets) THEN <<>>
    ELSE pack_uint(offset_size, U64(offsets[i] - bplist_header_length))
         \o pack_offsets_past_header(offsets, offset_size, i + 1)

RECURSIVE pack_offsets(_, _, _)
\* The offset table: offsets i.. , each of offset_size bytes.
pack_offsets(offsets, offset_size, i) ==
    IF i > Len(offsets) THEN <<>>
    ELSE pack_uint(offset_size, U64(offsets[i]))
         \o pack_offsets(offsets, offset_size, i + 1)

\* trailer_bytes with num_objects and top_object in each other's place.
trailer_bytes_swapped(trailer) ==
    <<0, 0, 0, 0, 0, 0, trailer.offset_size, trailer.ref_size>>
    \o U64(trailer.top_object) \o U64(trailer.num_objects)
    \o U64(trailer.offset_table_offset)

\* The 32 bytes of the trailer as memcpy stores them.
trailer_bytes(trailer) ==
    <<0, 0, 0, 0, 0, 0, trailer.offset_size, trailer.ref_size>>
    \o U64(trailer.num_objects) \o U64(trailer.top_object)
    \o U64(trailer.offset_table_offset)

\* generate_plist_offset_table_and_trailer that sets offset_table_offset from
\* current_object after the offset table is written, not before.
offset_table_and_trailer_late(st) ==
    LET objects_length == Len(st.objects)
        offset_size == offset_size_for(U64(objects_length))
    IN  IF offset_size = 0 THEN Fail(st, -1, "object space overflow")
        ELSE
        LET final_size == objects_length
                          + st.trailer.num_objects * offset_size
                          + sizeof_bplist_trailer
            s1 == resize_plist_buffer(
                      [st EXCEPT !.trailer.offset_size = offset_size],
                      final_size)
            s2 == Put(s1, pack_offsets(s1.offsets, offset_size, 1))
            s3 == [s2 EXCEPT !.trailer.offset_table_offset = Len(s2.objects)]
        IN  Put(s3, trailer_bytes(s3.trailer))

generate_plist_offset_table_and_trailer(st) ==
    LET objects_length == Len(st.objects)
        offset_size == offset_size_for(U64(objects_length))
    IN  IF offset_size = 0 THEN Fail(st, -1, "object space overflow")
        ELSE
        LET num_objects == st.trailer.num_objects
            offset_table_length == num_objects * offset_size
            trailer_length == sizeof_bplist_trailer
            final_size == objects_length + offset_table_length + trailer_length
            s1 == resize_plist_buffer(
                      [st EXCEPT !.trailer.offset_size = offset_size],
                      final_size)
            s2 == [s1 EXCEPT !.trailer.offset_table_offset = Len(s1.objects)]
            s3 == Put(s2, pack_offsets(s2.offsets, offset_size, 1))
        IN  Put(s3, trailer_bytes(s3.trailer))

initial_offset_table_length == 4096
initial_objects_buffer_length == 4096

\* The outcome of generate_plist: the bytes object ("ok"), NULL with an
\* exception set ("error"), abort() ("abort"), or undefined behaviour after
\* a write outside the object buffer ("undefined").
generate_plist(py_obj, build) ==
    LET state == [offsets |-> <<>>,
                  offcap |-> initial_offset_table_length \div sizeof_uint32_t,
                  objects |-> bplist_header,
                  cap |-> initial_objects_buffer_length,
                  trailer |-> [offset_size |-> 4, ref_size |-> 2,
                               num_objects |-> 0, top_object |-> 0,
                               offset_table_offset |-> 0],
                  rc |-> 0, err |-> "", ub |-> FALSE,
                  clz0 |-> build.clz0, cvt |-> build.cvt]
        s1 == generate_plist_object(state, py_obj)
        s2 == generate_plist_offset_table_and_trailer(s1)
    IN  IF s1.ub THEN [st |-> "undefined", bytes |-> <<>>, err |-> ""]
        ELSE IF s1.rc = 1 THEN [st |-> "abort", bytes |-> <<>>, err |-> ""]
        ELSE IF s1.rc # 0 THEN [st |-> "error", bytes |-> <<>>, err |-> s1.err]
        ELSE IF s2.ub THEN [st |-> "undefined", bytes |-> <<>>, err |-> ""]
        ELSE IF s2.rc # 0 THEN [st |-> "error", bytes |-> <<>>, err |-> s2.err]
        ELSE [st |-> "ok", bytes |-> s2.objects, err |-> ""]

(***************************************************************************)
(* The values handed to generate.                                          *)
(***************************************************************************)
\* The most items of a list or dict among the enumerated values.
MaxItems == 2

Int64(n) == VInt(U64(n))
MinusOne == Neg64(U64(1))
Str(cps) == VStr(cps)
Filled(n, b) == [i \in 1..n |-> b] \o <<>>

\* "a", "hello", "cafe" with e acute, a 15 character string, a euro sign,
\* a code point outside the BMP
Strings ==
    {Str(<<>>), Str(<<97>>), Str(<<104, 101, 108, 108, 111>>),
     Str(<<99, 97, 102, 233>>), Str(Filled(15, 120)), Str(<<8364>>),
     Str(<<97, 128512>>)}

Ints ==
    {Int64(0), Int64(127), Int64(128), Int64(255), Int64(256), Int64(65535),
     Int64(65536), Int64(2147483647),
     VInt(<<0, 0, 0, 0, 128, 0, 0, 0>>),
     VInt(<<0, 0, 0, 0, 255, 255, 255, 255>>),
     VInt(<<0, 0, 0, 1, 0, 0, 0, 0>>),
     VInt(<<127, 255, 255, 255, 255, 255, 255, 255>>),
     VInt(MinusOne), VInt(<<128, 0, 0, 0, 0, 0, 0, 0>>)}

\* 0, 1, 255, 256, 65535, 65536, 0xDEADBEEF, 2^32 - 1, 2^32, 2^64 - 1
Uids ==
    {VUid(Zero64), VUid(U64(1)), VUid(U64(255)), VUid(U64(256)),
     VUid(U64(65535)), VUid(U64(65536)),
     VUid(<<0, 0, 0, 0, 222, 173, 190, 239>>),
     VUid(<<0, 0, 0, 0, 255, 255, 255, 255>>),
     VUid(<<0, 0, 0, 1, 0, 0, 0, 0>>), VUid(MinusOne)}

\* 0.0, 1.0, -2.5, infinity
Floats ==
    {VFloat(Zero64), VFloat(<<63, 240, 0, 0, 0, 0, 0, 0>>),
     VFloat(<<192, 4, 0, 0, 0, 0, 0, 0>>), VFloat(<<127, 240, 0, 0, 0, 0, 0, 0>>)}

\* Unix time 0.0, 1.0, 1.0e9, 978307200.0, -86400.0
Dates ==
    {VDate(Zero64), VDate(<<63, 240, 0, 0, 0, 0, 0, 0>>),
     VDate(<<65, 205, 205, 101, 0, 0, 0, 0>>),
     VDate(<<65, 205, 39, 228, 64, 0, 0, 0>>),
     VDate(<<192, 245, 24, 0, 0, 0, 0, 0>>)}

Datas ==
    {VBytes(<<>>), VBytes(<<0>>), VBytes(<<1, 2, 255>>),
     VBytes(Filled(14, 7)), VBytes(Filled(15, 7)), VBytes(Filled(300, 7))}

\* Values no branch of generate_plist_object takes.
Unsupported == {VNone, VByteArray(<<1>>), [k |-> "tuple"]}

Scalars ==
    {VBool(TRUE), VBool(FALSE)} \cup Ints \cup Uids \cup Floats \cup Dates
    \cup Datas \cup Strings \cup Unsupported

\* The items of the enumerated lists and dicts.
Items ==
    {VBool(TRUE), VBool(FALSE), Int64(1), Int64(65536), VUid(U64(1)),
     VFloat(<<63, 240, 0, 0, 0, 0, 0, 0>>), VBytes(<<1, 2, 255>>),
     Str(<<97>>), Str(<<8364>>), VList(<<>>), VDict(<<>>),
     VList(<<Int64(1)>>), VNone}

Keys == {Str(<<97>>), Str(<<98>>), Int64(1)}

\* The values of the enumerated dicts.
DictItems ==
    {VBool(TRUE), Int64(1), VBytes(<<1, 2, 255>>), Str(<<97>>),
     VList(<<Int64(1)>>), VDict(<<>>), VNone}

Lists == UNION {{VList(xs) : xs \in [1..n -> Items]} : n \in 0..MaxItems}

Dicts ==
    UNION {{VDict([i \in 1..n |-> <<ks[i], vs[i]>>]) :
               ks \in {f \in [1..n -> Keys] :
                          \A i, j \in 1..n : i # j => f[i] # f[j]},
               vs \in [1..n -> DictItems]} : n \in 0..MaxItems}

\* Nested containers three levels deep, containers of 15 and 16 items, and
\* values whose object region needs two- and four-byte offsets or does not
\* fit the buffer after one doubling.
Special ==
    {VList(<<VDict(<< <<Str(<<97>>),
                        VList(<<VBool(TRUE), VDict(<<>>)>>)>> >>),
             VList(<<VList(<<Int64(1)>>)>>)>>),
     VList([i \in 1..15 |-> Int64(i)]),
     VDict([i \in 1..16 |-> <<Int64(i), Str(<<96 + i>>)>>]),
     VList(<<VBytes(Filled(300, 7)), Str(<<97>>), Int64(1)>>),
     VList([i \in 1..17 |-> VBytes(Filled(4000, i))]),
     VBytes(Filled(4088, 1)), VBytes(Filled(5000, 1)),
     VBytes(Filled(9000, 1)), VList([i \in 1..3 |-> VBytes(Filled(9000, 1))])}

Values == Scalars \cup Lists \cup Dicts \cup Special

\* What the undefined operations yield in the builds considered.
Builds == [clz0 : {0, 32, 48, 64}, cvt : {"wrap", "zero", "ones"}]

\* Whether generating v runs an undefined operation: __builtin_clzll(0) for
\* the uid 0, the conversion of a negative double for a date before 2001
\* whose bits, read as an integer, are below the epoch delta.
RECURSIVE HasUndefined(_)
HasUndefined(v) ==
    CASE v.k = "uid" -> v.u = Zero64
      [] v.k = "date" -> \E c \in {"wrap", "zero"} :
                            date_payload(v.bits, c) # date_payload(v.bits, "ones")
      [] v.k = "list" -> \E i \in 1..Len(v.xs) : HasUndefined(v.xs[i])
      [] v.k = "dict" -> \E i \in 1..Len(v.kvs) :
                            HasUndefined(v.kvs[i][1]) \/ HasUndefined(v.kvs[i][2])
      [] OTHER -> FALSE

\* The builds that differ on v: all of them when generating v runs an
\* undefined operation, one otherwise.
BuildsFor(v) ==
    IF HasUndefined(v) THEN Builds ELSE {[clz0 |-> 64, cvt |-> "wrap"]}

(***************************************************************************)
(* The byte strings handed to parse: files assembled from an object        *)
(* region, an offset table and a trailer, each of which may lie.           *)
(***************************************************************************)
\* An object as raw bytes, or a container whose references are filled in
\* with the reference width of the file.
Raw(bytes) == [tag |-> -1, refs |-> <<>>, bytes |-> bytes]
Arr(refs) == [tag |-> plist_type_array, refs |-> refs, bytes |-> <<>>]
Dct(keys, vals) ==
    [tag |-> plist_type_dict, refs |-> keys \o vals, bytes |-> <<>>]

\* The width used to lay out references and offsets when the trailer states
\* the width w.
LayoutWidth(w) == IF w \in {1, 2, 4, 8} THEN w ELSE 1

RECURSIVE PackRefs(_, _, _)
PackRefs(refs, w, i) ==
    IF i > Len(refs) THEN <<>>
    ELSE LowBytes(U64(refs[i]), w) \o PackRefs(refs, w, i + 1)

ObjectBytes(o, w) ==
    IF o.tag < 0 THEN o.bytes
    ELSE <<o.tag + (IF o.tag = plist_type_dict THEN Len(o.refs) \div 2
                    ELSE Len(o.refs))>> \o PackRefs(o.refs, w, 1)

RECURSIVE RegionBytes(_, _, _)
RegionBytes(objs, w, i) ==
    IF i > Len(objs) THEN <<>>
    ELSE ObjectBytes(objs[i], w) \o RegionBytes(objs, w, i + 1)

\* The offset of each object of the region that follows the header.
RECURSIVE RegionOffsets(_, _, _, _)
RegionOffsets(objs, w, i, off) ==
    IF i > Len(objs) THEN <<>>
    ELSE <<off>> \o RegionOffsets(objs, w, i + 1,
                                  off + Len(ObjectBytes(objs[i], w)))

TrailerBytes(os, rs, num, top, oto) ==
    <<0, 0, 0, 0, 0, 0, os, rs>> \o num \o top \o oto

\* A file with the given offset table; num and oto are 64-bit patterns.
FileWith(objs, tab, os, rs, num, top, oto) ==
    bplist_header \o RegionBytes(objs, LayoutWidth(rs), 1)
    \o pack_offsets(tab, LayoutWidth(os), 1)
    \o TrailerBytes(os, rs, num, top, oto)

NaturalTable(objs, rs) ==
    RegionOffsets(objs, LayoutWidth(rs), 1, bplist_header_length)

NaturalEnd(objs, rs) ==
    bplist_header_length + Len(RegionBytes(objs, LayoutWidth(rs), 1))

\* The well-formed file of objs with top object top.
File(objs, os, rs, top) ==
    FileWith(objs, NaturalTable(objs, rs), os, rs, U64(Len(objs)), U64(top),
             U64(NaturalEnd(objs, rs)))

Half64 == <<128, 0, 0, 0, 0, 0, 0, 0>>

\* One object of every type, and markers no type has.
DocScalars ==
    <<Raw(<<8>>), Raw(<<9>>), Raw(<<16, 127>>), Raw(<<17, 1, 0>>),
      Raw(<<18, 0, 1, 0, 0>>), Raw(<<19>> \o MinusOne),
      Raw(<<20, 0, 0, 0, 0, 0, 0, 0, 5>>),
      Raw(<<35, 63, 240, 0, 0, 0, 0, 0, 0>>), Raw(<<34, 63, 128, 0, 0>>),
      Raw(<<51, 65, 184, 69, 168, 120, 0, 0, 0>>),
      Raw(<<128, 5>>), Raw(<<129, 1, 0>>), Raw(<<67, 1, 2, 3>>),
      Raw(<<81, 97>>), Raw(<<97, 32, 172>>), Raw(<<0>>), Raw(<<112>>),
      Raw(<<81, 233>>), Raw(<<97, 216, 0>>)>>

\* [ {"a": []}, [], "a", 1 ] with the array first.
DocNested ==
    <<Arr(<<1, 2, 3, 4>>), Dct(<<3>>, <<2>>), Arr(<<>>), Raw(<<81, 97>>),
      Raw(<<16, 1>>)>>

\* A dict whose count is 2^63.
DocWrap == <<Raw(<<223, 19>> \o Half64)>>

\* An array that holds itself.
DocSelfCycle == <<Arr(<<0>>)>>

\* An array that holds a dict whose value is the array.
DocCycle == <<Arr(<<1>>), Dct(<<2>>, <<0>>), Raw(<<81, 97>>)>>

\* Containers with keys that cannot be keys, and with repeated keys.
DocKeys ==
    <<Dct(<<1>>, <<2>>), Arr(<<>>), Raw(<<9>>),
      Dct(<<2, 4>>, <<4, 2>>), Raw(<<16, 1>>),
      Arr(<<7>>), Dct(<<2>>, <<6>>)>>

\* Objects whose length prefix lies: counts of 2^63, 2^62 and 2^61, a
\* negative length, and lengths past the end of the file.
DocLengths ==
    <<Raw(<<223, 19>> \o Half64),
      Raw(<<223, 19, 64, 0, 0, 0, 0, 0, 0, 0>>),
      Raw(<<175, 19, 32, 0, 0, 0, 0, 0, 0, 0>>),
      Raw(<<175, 19>> \o Half64),
      Raw(<<79, 19>> \o MinusOne),
      Raw(<<79, 17, 255, 255>>),
      Raw(<<95, 16, 200>>),
      Raw(<<111, 19, 128, 0, 0, 0, 0, 0, 0, 1>>),
      Raw(<<111, 16, 100>>),
      Raw(<<162, 0>>), Raw(<<210, 0>>),
      Raw(<<79, 16, 2, 7, 7>>), Raw(<<95, 16, 15>>)>>

\* A uid object of every width: the marker 0x80 | (k - 1) and the k bytes
\* 1, 2, ..., k, for k from 1 to 16.
DocUids ==
    [k \in 1..16 |->
        Raw(<<plist_type_uid + (k - 1)>> \o [i \in 1..k |-> i])]

Docs ==
    {DocScalars, DocNested, DocWrap, DocSelfCycle, DocCycle, DocKeys,
     DocLengths, DocUids}

\* The widths a trailer may state.
Widths == {0, 1, 2, 3, 4, 8}

\* Well-formed files, each object of a document as the top object.
FilesValid ==
    UNION {{File(d, os, rs, top) :
               os \in {1, 2}, rs \in {1, 2}, top \in 0..(Len(d) - 1)} :
           d \in Docs}

\* Files whose trailer states another width.
FilesWidths ==
    {File(DocNested, os, rs, 0) : os \in Widths, rs \in Widths}

\* Files whose trailer lies about the count, the top object or the place of
\* the offset table.
FilesTrailer ==
    UNION {{FileWith(d, NaturalTable(d, 1), 1, 1, num, top, oto) :
               num \in {U64(Len(d)), Zero64, U64(1), U64(10), Half64, MinusOne},
               top \in {Zero64, U64(1), U64(Len(d)), U64(Len(d) + 6),
                        U64(NaturalEnd(d, 1) + 1), Half64, MinusOne},
               oto \in {U64(NaturalEnd(d, 1)), U64(NaturalEnd(d, 1) + 1),
                        U64(NaturalEnd(d, 1) + Len(d)),
                        U64(NaturalEnd(d, 1) + Len(d) + 1),
                        Zero64, U64(8), U64(1000), Half64, MinusOne}} :
           d \in {DocNested, <<Raw(<<9>>)>>}}

\* Files whose offset table points into the header, at the table itself,
\* at the trailer and beyond.
FilesOffsets ==
    {FileWith(<<Raw(<<9>>), Raw(<<8>>)>>, <<a, b>>, 1, 1, U64(2), U64(top),
              U64(10)) :
        a \in 0..12, b \in {9, 200}, top \in {0, 1}}
    \cup {FileWith(<<Arr(<<1>>), Raw(<<8>>)>>, <<8, b>>, 1, 1, U64(2), Zero64,
                   U64(11)) : b \in 0..13}

\* Inputs that are no file: too short, or with another header.
FilesShort ==
    {SubSeq(bplist_header, 1, n) : n \in 0..8}
    \cup {bplist_header \o Filled(n, 0) : n \in {1, 31}}
    \cup {<<98, 112, 108, 105, 115, 116, 48, 49>> \o Filled(33, 0),
          <<120>>, Filled(40, 0),
          SubSeq(File(DocNested, 1, 1, 0), 1, 39),
          SubSeq(File(DocNested, 1, 1, 0), 2, 46)}

Inputs ==
    FilesValid \cup FilesWidths \cup FilesTrailer \cup FilesOffsets
    \cup FilesShort

\* The addresses at which the input is placed.
Bases == {<<0, 0, 85, 85, 85, 117, 144, 32>>, <<0, 0, 127, 255, 247, 160, 0, 48>>}

\* The object region lengths at which the offset width is selected: the
\* edges of the one-, two- and four-byte ranges, and lengths beyond.
Lengths ==
    {Zero64, U64(8), U64(255), U64(256), U64(65535), U64(65536),
     <<0, 0, 0, 0, 255, 255, 255, 255>>, <<0, 0, 0, 1, 0, 0, 0, 0>>,
     <<0, 0, 0, 1, 0, 0, 0, 1>>, Half64, MinusOne}

(***************************************************************************)
(* The state: the last call of the module's functions and what it gave.    *)
(*   op      "none", "generate" (generate(py_obj) gave plist), "roundtrip" *)
(*           (parse of generate's bytes gave result), "parse" (parse of    *)
(*           input gave result), "size" (sizing holds the offset width     *)
(*           selected for a length)                                        *)
(*   count   a generate in progress, object by object (see below)          *)
(* The functions keep nothing between calls, so every call is taken from   *)
(* the initial state.                                                      *)
(***************************************************************************)
VARIABLES op, py_obj, plist, input, result, sizing, count

vars == <<op, py_obj, plist, input, result, sizing, count>>

NoPlist == [st |-> "none", bytes |-> <<>>, err |-> ""]
NoInput == Mem(<<>>, Zero64)
NoResult == [st |-> "none", v |-> VNone, err |-> "", oob |-> {}, dec |-> {}]
NoSizing == [objects_length |-> Zero64, offset_size |-> -1]
NoCount ==
    [pc |-> "idle", shape |-> <<>>, stack |-> <<>>, num_objects |-> 0,
     length |-> 0, cap |-> 0, offcap |-> 0, rc |-> 0, ub |-> FALSE,
     outcome |-> "none", size |-> 0]

Init ==
    /\ op = "none"
    /\ py_obj = VNone
    /\ plist = NoPlist
    /\ input = NoInput
    /\ result = NoResult
    /\ sizing = NoSizing
    /\ count = NoCount

\* generate(v), in a build b
Generate(v, b) ==
    /\ op = "none"
    /\ op' = "generate"
    /\ py_obj' = v
    /\ plist' = generate_plist(v, b)
    /\ input' = NoInput
    /\ result' = NoResult
    /\ sizing' = NoSizing
    /\ UNCHANGED count

\* parse(data), data placed at base
Parse(data, base) ==
    /\ op = "none"
    /\ op' = "parse"
    /\ py_obj' = VNone
    /\ plist' = NoPlist
    /\ input' = Mem(data, base)
    /\ result' = parse_plist(data, base)
    /\ sizing' = NoSizing
    /\ UNCHANGED count

\* parse of the bytes the last generate returned
ParseGenerated(base) ==
    /\ op = "generate"
    /\ plist.st = "ok"
    /\ op' = "roundtrip"
    /\ input' = Mem(plist.bytes, base)
    /\ result' = parse_plist(plist.bytes, base)
    /\ UNCHANGED <<py_obj, plist, sizing, count>>

\* The selection of the offset width for an object region of n bytes.
SelectOffsetSize(n) ==
    /\ op = "none"
    /\ op' = "size"
    /\ py_obj' = VNone
    /\ plist' = NoPlist
    /\ input' = NoInput
    /\ result' = NoResult
    /\ sizing' = [objects_length |-> n, offset_size |-> offset_size_for(n)]
    /\ UNCHANGED count

Next ==
    \/ \E v \in Values : \E b \in BuildsFor(v) : Generate(v, b)
    \/ \E d \in Inputs, base \in Bases : Parse(d, base)
    \/ \E base \in Bases : ParseGenerated(base)
    \/ \E n \in Lengths : SelectOffsetSize(n)

Spec == Init /\ [][Next]_vars

(***************************************************************************)
(* generate, object by object, for values with many objects: a list of     *)
(* outer lists of inner leaves each, every leaf the int 0 or a value of no *)
(* supported type.  A step is one call of generate_plist_object; of the    *)
(* generator's state it keeps the lengths and counts, not the bytes.       *)
(*   stack   the open loops of generate_array, innermost last: the items   *)
(*           left and the offset of the next reference slot                *)
(*   length  current_object - objects      cap     objects_end - objects   *)
(*   offcap  offsets_end - offsets         rc      the last return code    *)
(***************************************************************************)
\* The most lists in the top list, and the most leaves in a list.
MaxOuter == 32
MaxInner == 2047

Shapes ==
    [outer : {0, 2, MaxOuter - 1, MaxOuter}, inner : {0, 3, MaxInner},
     leaf : {"int", "unsupported"}]

count_scratch == [objects |-> <<>>, cap |-> 16, ub |-> FALSE]

\* The number of bytes pack_type_and_length writes.
packed_length(type, length) ==
    Len(pack_type_and_length(count_scratch, type, length).objects)

\* The number of bytes pack_int writes for int_val.
packed_int_length(int_val) == Len(pack_int(count_scratch, int_val).objects)

\* A write of n bytes at offset pos of the object buffer.
count_write(c, pos, n) == IF pos + n > c.cap THEN [c EXCEPT !.ub = TRUE] ELSE c

\* n bytes written at current_object, which moves past them.
count_put(c, n) ==
    IF c.length + n > c.cap THEN [c EXCEPT !.ub = TRUE]
    ELSE [c EXCEPT !.length = @ + n]

count_resize_if_needed(c, required_space) ==
    IF c.length <= c.cap /\ c.cap - c.length < required_space
    THEN [c EXCEPT !.cap = @ * 2]
    ELSE c

\* trailer.offset_size is 4 while the objects are generated.
count_grow_offset_table(c) ==
    IF c.offcap - c.num_objects >= sizeof_uint32_t THEN c
    ELSE [c EXCEPT !.offcap = @ * 2]

\* generate_array up to its loop, for a list of length items.
count_array(c, length) ==
    LET ref_size == 2
        ref_length == ref_size * length
        s1 == count_put(c, packed_length(plist_type_array, length))
        s2 == count_resize_if_needed(s1, ref_length)
    IN  IF s1.ub THEN s1
        ELSE [s2 EXCEPT !.length = @ + ref_length,
                        !.stack = Append(@, [left |-> length,
                                             slot |-> s2.length])]

\* generate_int of 0, or the failure on a value of no supported type.
count_leaf(c) ==
    IF c.shape.leaf = "int" THEN count_put(c, packed_int_length(Zero64))
    ELSE [c EXCEPT !.rc = -1]

\* generate_plist_object on the next object: the top list, a list in it, or
\* a leaf, by the number of loops that are open.
count_plist_object(c) ==
    LET s1 == count_grow_offset_table(c)
        s2 == [s1 EXCEPT !.num_objects = @ + 1]
        s3 == count_resize_if_needed(s2, 32)
    IN  IF s2.num_objects = ref_overflow_count THEN [s2 EXCEPT !.rc = 1]
        ELSE IF Len(c.stack) = 0 THEN count_array(s3, c.shape.outer)
        ELSE IF Len(c.stack) = 1 THEN count_array(s3, c.shape.inner)
        ELSE count_leaf(s3)

\* generate_plist up to its call of generate_plist_object
CountStart(shape) ==
    /\ op = "none"
    /\ count.pc = "idle"
    /\ count' = [pc |-> "run", shape |-> shape, stack |-> <<>>,
                 num_objects |-> 0, length |-> bplist_header_length,
                 cap |-> initial_objects_buffer_length,
                 offcap |-> initial_offset_table_length \div sizeof_uint32_t,
                 rc |-> 0, ub |-> FALSE, outcome |-> "none", size |-> 0]
    /\ UNCHANGED <<op, py_obj, plist, input, result, sizing>>

\* The call of generate_plist_object on the top object, or one turn of the
\* innermost loop: the reference is written, then the item is generated.
CountObject ==
    /\ count.pc = "run"
    /\ count.rc = 0
    /\ ~count.ub
    /\ IF count.stack = <<>> THEN count.num_objects = 0
       ELSE count.stack[Len(count.stack)].left > 0
    /\ LET d == Len(count.stack)
           c1 == IF d = 0 THEN count
                 ELSE [count_write(count, count.stack[d].slot, 2) EXCEPT
                          !.stack[d].left = @ - 1,
                          !.stack[d].slot = @ + 2]
       IN  count' = IF c1.ub THEN c1 ELSE count_plist_object(c1)
    /\ UNCHANGED <<op, py_obj, plist, input, result, sizing>>

\* The innermost loop has no item left: generate_array returns 0.
CountReturn ==
    /\ count.pc = "run"
    /\ count.rc = 0
    /\ ~count.ub
    /\ count.stack # <<>>
    /\ count.stack[Len(count.stack)].left = 0
    /\ count' = [count EXCEPT !.stack = SubSeq(@, 1, Len(@) - 1)]
    /\ UNCHANGED <<op, py_obj, plist, input, result, sizing>>

\* generate_plist after generate_plist_object returned: abort() on 1, NULL
\* on another failure, else the offset table and the trailer.
CountFinish ==
    /\ count.pc = "run"
    /\ \/ count.rc # 0
       \/ count.ub
       \/ count.stack = <<>> /\ count.num_objects > 0
    /\ LET offset_size == offset_size_for(U64(count.length))
       IN  count' =
             IF count.ub
             THEN [count EXCEPT !.pc = "done", !.outcome = "undefined"]
             ELSE IF count.rc = 1
             THEN [count EXCEPT !.pc = "done", !.outcome = "abort"]
             ELSE IF count.rc # 0 \/ offset_size = 0
             THEN [count EXCEPT !.pc = "done", !.outcome = "error"]
             ELSE [count EXCEPT !.pc = "done", !.outcome = "ok",
                                !.size = count.length
                                         + count.num_objects * offset_size
                                         + sizeof_bplist_trailer]
    /\ UNCHANGED <<op, py_obj, plist, input, result, sizing>>

NextCount ==
    \/ \E shape \in Shapes : CountStart(shape)
    \/ CountObject
    \/ CountReturn
    \/ CountFinish

SpecCount == Init /\ [][NextCount]_vars

(***************************************************************************)
(* The properties, and what they speak of.                                *)
(***************************************************************************)
\* The supported value universe: bool, 64-bit int, float64, date, uid,
\* bytes, string, and the lists and dicts of such values.
RECURSIVE InUniverse(_)
InUniverse(v) ==
    CASE v.k \in {"bool", "int", "float", "date", "uid", "bytes", "str"} -> TRUE
      [] v.k = "list" -> \A i \in 1..Len(v.xs) : InUniverse(v.xs[i])
      [] v.k = "dict" -> \A i \in 1..Len(v.kvs) :
                            InUniverse(v.kvs[i][1]) /\ InUniverse(v.kvs[i][2])
      [] OTHER -> FALSE

\* The number of nodes of v: v, and the nodes of its items, keys and values.
RECURSIVE NodeCount(_)
RECURSIVE NodeCountFrom(_, _)
NodeCountFrom(xs, i) ==
    IF i > Len(xs) THEN 0 ELSE NodeCount(xs[i]) + NodeCountFrom(xs, i + 1)
NodeCount(v) ==
    CASE v.k = "list" -> 1 + NodeCountFrom(v.xs, 1)
      [] v.k = "dict" ->
            1 + NodeCountFrom([i \in 1..Len(v.kvs) |-> v.kvs[i][1]], 1)
              + NodeCountFrom([i \in 1..Len(v.kvs) |-> v.kvs[i][2]], 1)
      [] OTHER -> 1

\* The number a big-endian byte string denotes.
RECURSIVE BigEndian(_)
BigEndian(bytes) ==
    IF bytes = <<>> THEN 0
    ELSE BigEndian(SubSeq(bytes, 1, Len(bytes) - 1)) * 256 + bytes[Len(bytes)]

\* The extent of the object whose marker is at offset off of a file (byte
\* off + 1 of bytes), by the format: the marker, the length that follows a
\* low nibble of 15, and the payload or the references.
CountAt(bytes, off) ==
    IF bytes[off + 1] % 16 # 15 THEN [n |-> bytes[off + 1] % 16, used |-> 1]
    ELSE LET w == 2 ^ (bytes[off + 2] % 16)
         IN  [n |-> BigEndian(SubSeq(bytes, off + 3, off + 2 + w)),
              used |-> 2 + w]

ObjectExtent(bytes, off, ref_size) ==
    LET marker == bytes[off + 1]
        tag == marker - (marker % 16)
        c == CountAt(bytes, off)
    IN  CASE tag = plist_type_primitive -> 1
          [] tag = plist_type_int -> 1 + 2 ^ (marker % 16)
          [] tag = plist_type_float -> 1 + 2 ^ (marker % 16)
          [] tag = plist_type_date -> 9
          [] tag = plist_type_uid -> 2 + (marker % 16)
          [] tag = plist_type_data -> c.used + c.n
          [] tag = plist_type_ascii_string -> c.used + c.n
          [] tag = plist_type_utf16_string -> c.used + 2 * c.n
          [] tag = plist_type_array -> c.used + ref_size * c.n
          [] tag = plist_type_dict -> c.used + 2 * ref_size * c.n
          [] OTHER -> 0

\* The offsets of n objects laid end to end from off on, and the offset at
\* which the last of them ends.
RECURSIVE ObjectWalk(_, _, _, _)
ObjectWalk(bytes, off, ref_size, n) ==
    IF n = 0 THEN <<off>>
    ELSE <<off>> \o ObjectWalk(bytes, off + ObjectExtent(bytes, off, ref_size),
                               ref_size, n - 1)

\* generate returned bytes in this state.
Generated == op \in {"generate", "roundtrip"} /\ plist.st = "ok"

\* parse ran in this state.
Parsed == op \in {"parse", "roundtrip"}

\* parse got as far as reading the trailer.
TrailerRead ==
    /\ Parsed
    /\ strncmp_equal(input.data)
    /\ Len(input.data) >= bplist_header_length + sizeof_bplist_trailer

\* What the trailer declares fits the file: offset_table_offset +
\* num_objects * offset_size <= file_length - 32, with no wrap-around.
DeclaredTableFits ==
    LET t == trailer_of(input.data)
        n == Len(input.data)
    IN  /\ IsSmall64(t.num_objects)
        /\ IsSmall64(t.offset_table_offset)
        /\ Nat64(t.num_objects) <= n
        /\ Nat64(t.offset_table_offset) <= n
        /\ Nat64(t.offset_table_offset) + Nat64(t.num_objects) * t.offset_size
               <= n - sizeof_bplist_trailer

\* The errors of parse_plist by the name the interface gives them.
OutOfBounds ==
    {"offset_table out of bounds", "invalid object index",
     "object out of bounds", "invalid data length", "invalid ascii length",
     "invalid utf16 length", "invalid array length", "invalid dict length"}
Truncated == {"too short"}

(***************************************************************************)
(* C1                                                                      *)
(***************************************************************************)
\* C1: for every value v of the supported universe, generate(v) succeeds and
\* parse(generate(v)) returns a value equal to v and of the same kind.
C1_RoundTrip ==
    /\ op = "generate" /\ InUniverse(py_obj) => plist.st = "ok"
    /\ op = "roundtrip" /\ InUniverse(py_obj) =>
           result.st = "ok" /\ result.v = py_obj

\* C1: generate(True) succeeded and parse of its bytes returned the int 1.
C1_BoolComesBackAsInt ==
    /\ op = "roundtrip"
    /\ py_obj = VBool(TRUE)
    /\ result.st = "ok"
    /\ result.v = VInt(U64(1))

(***************************************************************************)
(* C2                                                                      *)
(***************************************************************************)
\* C2: no parse input causes a read outside the input buffer: every byte
\* read by the header check, the trailer decode, the offset-table lookup,
\* unpack_length and the decoders lies inside the input.  (The NUL that ends
\* a bytes object, which strncmp reads on an input shorter than the header,
\* is counted as inside.)
C2_ReadsInsideInput ==
    Parsed => result.oob \subseteq {"header"} /\ result.st # "wild"

\* C2: parse_dict read a reference outside the input, after the check of a
\* count whose product with ref_size and 2 wrapped around passed.
C2_DictReadOutside ==
    /\ op = "parse"
    /\ input.data = File(DocWrap, 1, 1, 0)
    /\ result.st = "wild"
    /\ result.oob = {"dict"}

(***************************************************************************)
(* C3                                                                      *)
(***************************************************************************)
\* C3: whenever the trailer's offset_table_offset + num_objects * offset_size
\* exceeds file_length - 32, parse fails with OutOfBounds or Truncated and
\* returns no value, whatever the top object is.
C3_CountMustFit ==
    /\ TrailerRead
    /\ check_int_width(trailer_of(input.data).offset_size)
    /\ check_int_width(trailer_of(input.data).ref_size)
    /\ ~DeclaredTableFits
    => result.st = "error" /\ result.err \in OutOfBounds \cup Truncated

\* C3: parse returned a value for a file that declares 10 objects, has room
\* for fewer table entries, and is well formed otherwise.
C3_CountAccepted ==
    /\ TrailerRead
    /\ trailer_of(input.data).num_objects = U64(10)
    /\ trailer_of(input.data).offset_size = 1
    /\ ~DeclaredTableFits
    /\ result.st = "ok"
    /\ result.v.k = "list"
    /\ \A e \in result.dec :
           /\ Le64(U64(bplist_header_length), e[2])
           /\ Lt64(e[2], trailer_of(input.data).offset_table_offset)

(***************************************************************************)
(* C4                                                                      *)
(***************************************************************************)
\* C4: every object index parse dereferences, the top object's and every
\* child reference's, is below num_objects; no object is decoded for an
\* index at or above it.
C4_IndexBelowCount ==
    Parsed =>
        \A e \in result.dec :
            Lt64(e[1], trailer_of(input.data).num_objects)

\* C4: parse returned a value after decoding the objects of child
\* references that are not below num_objects.
C4_IndexAboveCountDecoded ==
    /\ Parsed
    /\ result.st = "ok"
    /\ trailer_of(input.data).num_objects = U64(1)
    /\ trailer_of(input.data).top_object = Zero64
    /\ \E e \in result.dec : e[1] = U64(4)

(***************************************************************************)
(* C5                                                                      *)
(***************************************************************************)
\* C5: every object offset parse takes from the offset table satisfies
\* 8 <= offset < offset_table_offset, so no object is decoded from the bytes
\* of the header or of the offset table.
C5_OffsetInObjectRegion ==
    Parsed =>
        \A e \in result.dec :
            /\ Le64(U64(bplist_header_length), e[2])
            /\ Lt64(e[2], trailer_of(input.data).offset_table_offset)

\* C5: parse returned a date decoded from the bytes at offset 6, in the
\* header.
C5_HeaderDecoded ==
    /\ Parsed
    /\ result.st = "ok"
    /\ result.v.k = "date"
    /\ result.dec = {<<Zero64, U64(6)>>}

(***************************************************************************)
(* C6                                                                      *)
(***************************************************************************)
\* C6: parse terminates on every input, with a value or an error: no input,
\* and no cycle of references among them, makes it recurse without bound.
C6_ParseTerminates == Parsed => result.st \in {"ok", "error", "wild"}

\* C6: parse was entered for an object that is on its own call chain.
C6_CycleRecursesForever ==
    /\ op = "parse"
    /\ input.data = File(DocSelfCycle, 1, 1, 0)
    /\ result.st = "overflow"

(***************************************************************************)
(* C7                                                                      *)
(***************************************************************************)
\* C7: every generate that fails ends as an error result with no bytes
\* returned, the object count reaching 0xFFFF included.
C7_FailureIsAnError ==
    count.pc = "done" /\ count.outcome # "ok" =>
        count.outcome = "error" /\ count.size = 0

\* C7: generate ended in abort() when the count of objects reached 0xFFFF,
\* no write having left the buffer.
C7_Aborted ==
    /\ count.pc = "done"
    /\ count.outcome = "abort"
    /\ count.num_objects = ref_overflow_count
    /\ ~count.ub

(***************************************************************************)
(* C8                                                                      *)
(***************************************************************************)
\* C8: the bytes of every successful generate(v) start with "bplist00" and
\* end with a 32-byte trailer whose top_object is 0 and whose num_objects is
\* the number of nodes of v, equal nodes counted each.
C8_HeaderAndTrailer ==
    Generated =>
        /\ Len(plist.bytes) >= bplist_header_length + sizeof_bplist_trailer
        /\ SubSeq(plist.bytes, 1, 8) = <<98, 112, 108, 105, 115, 116, 48, 48>>
        /\ trailer_of(plist.bytes).top_object = Zero64
        /\ trailer_of(plist.bytes).num_objects = U64(NodeCount(py_obj))

\* C8: generate succeeded on a list that holds the same value twice.
C8_Witness ==
    /\ Generated
    /\ py_obj = VList(<<VList(<<Int64(1)>>), VList(<<Int64(1)>>)>>)
    /\ trailer_of(plist.bytes).num_objects = U64(5)

(***************************************************************************)
(* C9                                                                      *)
(***************************************************************************)
\* C9: for every buffer of length n that generate returns, the trailer has
\* offset_table_offset + num_objects * offset_size + 32 = n, and
\* offset_table_offset is where the objects, laid end to end after the
\* header, end.
C9_TrailerArithmetic ==
    Generated =>
        LET t == trailer_of(plist.bytes)
            num == Nat64(t.num_objects)
        IN  /\ IsSmall64(t.offset_table_offset) /\ IsSmall64(t.num_objects)
            /\ Nat64(t.offset_table_offset) + num * t.offset_size
                   + sizeof_bplist_trailer = Len(plist.bytes)
            /\ ObjectWalk(plist.bytes, bplist_header_length, t.ref_size,
                          num)[num + 1] = Nat64(t.offset_table_offset)

\* C9: generate returned a buffer with several objects and two-byte offsets.
C9_Witness ==
    /\ Generated
    /\ trailer_of(plist.bytes).offset_size = 2
    /\ Nat64(trailer_of(plist.bytes).num_objects) > 2

(***************************************************************************)
(* C10                                                                     *)
(***************************************************************************)
\* The least of the widths 1, 2, 4 that holds the 64-bit length, 0 if none.
MinimalWidth(length) ==
    IF \A i \in 1..7 : length[i] = 0 THEN 1
    ELSE IF \A i \in 1..6 : length[i] = 0 THEN 2
    ELSE IF \A i \in 1..4 : length[i] = 0 THEN 4
    ELSE 0

\* C10: the offset_size generate writes is the least width of 1, 2, 4 that
\* holds objects_length, generate fails when objects_length exceeds
\* 2^32 - 1, and every entry of the offset table is the offset of its
\* object, big-endian, in exactly offset_size bytes.
C10_MinimalOffsetSize ==
    /\ op = "size" =>
           sizing.offset_size = MinimalWidth(sizing.objects_length)
    /\ Generated =>
           LET t == trailer_of(plist.bytes)
               num == Nat64(t.num_objects)
               oto == Nat64(t.offset_table_offset)
               at == ObjectWalk(plist.bytes, bplist_header_length,
                                t.ref_size, num)
           IN  /\ t.offset_size = MinimalWidth(t.offset_table_offset)
               /\ t.offset_size # 0
               /\ \A i \in 1..num :
                      BigEndian(SubSeq(plist.bytes,
                                       oto + (i - 1) * t.offset_size + 1,
                                       oto + i * t.offset_size)) = at[i]

\* C10: generate returned a buffer whose objects take more than 0xFFFF bytes.
C10_Witness ==
    /\ Generated
    /\ trailer_of(plist.bytes).offset_size = 4
    /\ Nat64(trailer_of(plist.bytes).num_objects) > 2

(***************************************************************************)
(* C11                                                                     *)
(***************************************************************************)
\* The input of the parse in this state is shorter than a header and a
\* trailer.
ShortInput ==
    /\ op = "parse"
    /\ Len(input.data) < bplist_header_length + sizeof_bplist_trailer

\* The input begins with the eight bytes of the header.
StartsWithHeader ==
    /\ Len(input.data) >= Len(bplist_header)
    /\ \A i \in 1..Len(bplist_header) : input.data[i] = bplist_header[i]

\* C11 (as stated): parse of any input shorter than 40 bytes fails with
\* Truncated, whatever its first bytes are, and reads no byte beyond the
\* input.
C11_ShortIsTruncated ==
    ShortInput =>
        /\ result.st = "error"
        /\ result.err \in Truncated
        /\ result.oob = {}

\* C11: parse of any input shorter than 40 bytes fails: with the invalid
\* header error when the input does not begin with the eight bytes
\* "bplist00", and with the too short error when it does; the only byte
\* read past the last byte of the input is the NUL that ends the buffer of
\* the bytes object, which the comparison of the header reads when the input
\* is a proper prefix of the header.
C11_ShortFails ==
    ShortInput =>
        /\ result.st = "error"
        /\ result.err = IF StartsWithHeader THEN "too short"
                        ELSE "invalid header"
        /\ result.dec = {}
        /\ result.oob = IF /\ Len(input.data) < Len(bplist_header)
                           /\ input.data
                                  = SubSeq(bplist_header, 1, Len(input.data))
                        THEN {"header"} ELSE {}

\* C11: parse of a proper prefix of the header failed with the invalid
\* header error.
C11_Witness ==
    /\ ShortInput
    /\ Len(input.data) \in 1..7
    /\ input.data = SubSeq(bplist_header, 1, Len(input.data))
    /\ result.err = "invalid header"

(***************************************************************************)
(* C12                                                                     *)
(***************************************************************************)
\* The errors of the checks of the trailer.
MalformedTrailer ==
    {"invalid offset_size", "invalid ref_size", "offset_table out of bounds"}

\* The trailer's offset_table_offset lies past the start of the trailer.
TablePastTrailer ==
    Lt64(U64(Len(input.data) - sizeof_bplist_trailer),
         trailer_of(input.data).offset_table_offset)

\* The entry of the offset table for index, read as offset_size big-endian
\* bytes at offset_table_offset + index * offset_size of the input.
TableEntry(index) ==
    LET t == trailer_of(input.data)
        p == Add64(Add64(input.base, t.offset_table_offset),
                   Mul64(index, t.offset_size))
    IN  IF InBuf(input, p, t.offset_size)
        THEN ZeroExtend(Peek(input, p, t.offset_size))
        ELSE <<>>

\* C12: parse fails with the error of the trailer, before it decodes any
\* object, whenever offset_size or ref_size is not one of 1, 2, 4, 8 or
\* offset_table_offset lies past the start of the trailer; with valid widths
\* the offset of every object decoded is the offset_size bytes of its
\* entry of the offset table.
C12_TrailerChecked ==
    TrailerRead =>
        LET t == trailer_of(input.data)
        IN  IF \/ t.offset_size \notin {1, 2, 4, 8}
               \/ t.ref_size \notin {1, 2, 4, 8}
               \/ TablePastTrailer
            THEN /\ result.st = "error"
                 /\ result.err \in MalformedTrailer
                 /\ result.dec = {}
            ELSE \A e \in result.dec : e[2] = TableEntry(e[1])

\* C12: parse returned True from a file of 42 bytes whose
\* offset_table_offset is 2^64 - 1.
C12_TableWrapped ==
    /\ TrailerRead
    /\ op = "parse"
    /\ Len(input.data) = 42
    /\ trailer_of(input.data).offset_table_offset = MinusOne
    /\ trailer_of(input.data).offset_size = 1
    /\ result.st = "ok"
    /\ result.v = VBool(TRUE)
    /\ result.dec = {<<U64(10), U64(8)>>}
    /\ result.oob = {}

(***************************************************************************)
(* C13                                                                     *)
(***************************************************************************)
\* generate was called on a text string that holds no surrogate code point.
StringGiven ==
    /\ op = "generate"
    /\ py_obj.k = "str"
    /\ \A i \in 1..Len(py_obj.cps) :
           ~IsHighSurrogate(py_obj.cps[i]) /\ ~IsLowSurrogate(py_obj.cps[i])

\* The number of UTF-16 code units of the code points cps.
CodeUnits(cps) ==
    Len(cps) + Cardinality({i \in 1..Len(cps) : cps[i] >= 65536})

\* C13: generate of a text string succeeds, and its object is an ASCII
\* object (tag 0x5) holding the code points when all of them are <= 0x7F,
\* and a UTF-16 object (tag 0x6) whose length counts the code units
\* otherwise, as for "café".
C13_StringKind ==
    StringGiven =>
        /\ plist.st = "ok"
        /\ LET marker == plist.bytes[bplist_header_length + 1]
               c == CountAt(plist.bytes, bplist_header_length)
           IN  IF \A i \in 1..Len(py_obj.cps) : py_obj.cps[i] <= 127
               THEN /\ HighNibble(marker) = plist_type_ascii_string
                    /\ c.n = Len(py_obj.cps)
                    /\ SubSeq(plist.bytes,
                              bplist_header_length + c.used + 1,
                              bplist_header_length + c.used + c.n)
                           = py_obj.cps
               ELSE /\ HighNibble(marker) = plist_type_utf16_string
                    /\ c.n = CodeUnits(py_obj.cps)

\* C13: generate("café") failed with UnicodeEncodeError and returned no
\* bytes.
C13_CafeRefused ==
    /\ StringGiven
    /\ py_obj.cps = <<99, 97, 102, 233>>
    /\ plist.st = "error"
    /\ plist.err = "UnicodeEncodeError"
    /\ plist.bytes = <<>>

(***************************************************************************)
(* C14                                                                     *)
(***************************************************************************)
\* generate was called on a boolean.
BoolGiven == op \in {"generate", "roundtrip"} /\ py_obj.k = "bool"

\* C14: generate of a boolean returns a file whose object region is the one
\* byte 0x09 (true) or 0x08 (false), with the trailer offset_size = 1,
\* ref_size = 2, num_objects = 1, top_object = 0, offset_table_offset = 9,
\* and parse of the file returns the boolean.
C14_BoolMarkerOnly ==
    BoolGiven =>
        /\ plist.st = "ok"
        /\ plist.bytes
               = bplist_header
                 \o <<IF py_obj.b THEN plist_type_true ELSE plist_type_false>>
                 \o <<bplist_header_length>>
                 \o TrailerBytes(1, 2, U64(1), Zero64, U64(9))
        /\ op = "roundtrip" => result.st = "ok" /\ result.v = py_obj

\* C14: generate(False) returned a file whose object region is the int
\* object 10 00, with offset_table_offset = 10, and parse of it returned the
\* int 0.
C14_FalseAsInt ==
    /\ BoolGiven
    /\ py_obj = VBool(FALSE)
    /\ op = "roundtrip"
    /\ plist.bytes
           = bplist_header \o <<plist_type_int8, 0>> \o <<bplist_header_length>>
             \o TrailerBytes(1, 2, U64(1), Zero64, U64(10))
    /\ result.st = "ok"
    /\ result.v = VInt(Zero64)

(***************************************************************************)
(* C15                                                                     *)
(***************************************************************************)
\* generate was called on a uid (its value fits in 64 bits).
UidGiven == op \in {"generate", "roundtrip"} /\ py_obj.k = "uid"

\* C15: generate of a uid whose value fits in 64 bits succeeds and the
\* object it writes is a uid object (tag 0x8), never an int object; parse of
\* the file returns a uid of the same value, which is not the int of that
\* value.
C15_UidRoundTrip ==
    UidGiven =>
        /\ plist.st = "ok"
        /\ HighNibble(plist.bytes[bplist_header_length + 1]) = plist_type_uid
        /\ op = "roundtrip" =>
               /\ result.st = "ok"
               /\ result.v.k = "uid"
               /\ result.v.u = py_obj.u
               /\ result.v # VInt(py_obj.u)

\* C15: the uid 0xDEADBEEF went through generate and parse.
C15_Witness ==
    /\ UidGiven
    /\ op = "roundtrip"
    /\ py_obj.u = <<0, 0, 0, 0, 222, 173, 190, 239>>
    /\ plist.bytes[bplist_header_length + 1] = plist_type_uid + 3
    /\ result.v = py_obj

(***************************************************************************)
(* C16                                                                     *)
(***************************************************************************)
\* generate was called on a date.
DateGiven == op \in {"generate", "roundtrip"} /\ py_obj.k = "date"

\* The double of the opposite sign.
Negate(bits) == [bits EXCEPT ![1] = (@ + 128) % 256]

\* The bits of the double t - 978307200.0, for the double t with bits bits:
\* the opposite of (-t) + 978307200.0, rounding being symmetric.
MinusEpochDelta(bits) ==
    LET s == add_epoch_delta(Negate(bits))
    IN  IF s = Zero64 THEN Zero64 ELSE Negate(s)

\* C16: generate of a date of Unix time t writes the marker 0x30 and the
\* big-endian bits of the double t - 978307200.0, and parse of the file
\* returns a date of the same t.
C16_DateEncoding ==
    DateGiven =>
        /\ plist.st = "ok"
        /\ plist.bytes[bplist_header_length + 1] = plist_type_date
        /\ SubSeq(plist.bytes, bplist_header_length + 2,
                  bplist_header_length + 9) = MinusEpochDelta(py_obj.bits)
        /\ op = "roundtrip" => result.st = "ok" /\ result.v = py_obj

\* C16: generate of the date of Unix time 1.0e9 wrote a payload that is not
\* the double 21692800.0, and parse of the file returned another date.
C16_BitsSubtracted ==
    /\ DateGiven
    /\ op = "roundtrip"
    /\ py_obj.bits = <<65, 205, 205, 101, 0, 0, 0, 0>>
    /\ MinusEpochDelta(py_obj.bits) = <<65, 116, 176, 24, 0, 0, 0, 0>>
    /\ SubSeq(plist.bytes, bplist_header_length + 2, bplist_header_length + 9)
           # MinusEpochDelta(py_obj.bits)
    /\ result.st = "ok"
    /\ result.v.k = "date"
    /\ result.v # py_obj

(***************************************************************************)
(* C17                                                                     *)
(***************************************************************************)
\* C17: in every generate, every write of a marker, a length, a payload, a
\* placeholder or a reference lies inside [objects, objects_end), whatever
\* the value; the outcome "undefined" marks a generate one of whose writes
\* did not.
C17_WritesInsideBuffer ==
    op \in {"generate", "roundtrip"} => plist.st # "undefined"

\* C17: generate of a byte string of 9000 bytes copied the payload past the
\* end of the object buffer, which one doubling had grown to 8192 bytes.
C17_PayloadPastEnd ==
    /\ op = "generate"
    /\ py_obj = VBytes(Filled(9000, 1))
    /\ initial_objects_buffer_length * 2 < bplist_header_length + 4 + 9000
    /\ plist.st = "undefined"

(***************************************************************************)
(* C18                                                                     *)
(***************************************************************************)
\* The offset the offset table of a file holds for the object index.
OffsetOf(bytes, index) ==
    LET t == trailer_of(bytes)
        at == Nat64(t.offset_table_offset) + index * t.offset_size
    IN  BigEndian(SubSeq(bytes, at + 1, at + t.offset_size))

\* The j-th reference of the block of references at offset off, each w
\* bytes wide.
RefSlot(bytes, off, w, j) ==
    BigEndian(SubSeq(bytes, off + w * (j - 1) + 1, off + w * j))

\* The tags an object of the value v may carry.
TagsOf(v) ==
    CASE v.k \in {"int", "bool"} -> {plist_type_int, plist_type_primitive}
      [] v.k = "uid" -> {plist_type_uid}
      [] v.k = "float" -> {plist_type_float}
      [] v.k = "date" -> {plist_type_date}
      [] v.k = "bytes" -> {plist_type_data}
      [] v.k = "str" -> {plist_type_ascii_string, plist_type_utf16_string}
      [] v.k = "list" -> {plist_type_array}
      [] v.k = "dict" -> {plist_type_dict}
      [] OTHER -> {}

\* Whether the object of index index of the file is an object of the kind
\* of v and, for a list or a dict, has its prefix followed by the slots of
\* its children, each holding the index the enumeration in depth gives the
\* child (item by item; key0, val0, key1, val1, ...), the children being
\* encoded so in their turn.
RECURSIVE ContainerEncoded(_, _, _)
ContainerEncoded(bytes, v, index) ==
    LET w == trailer_of(bytes).ref_size
        off == OffsetOf(bytes, index)
        c == CountAt(bytes, off)
        slots == off + c.used
    IN  /\ HighNibble(bytes[off + 1]) \in TagsOf(v)
        /\ CASE v.k = "list" ->
                  /\ c.n = Len(v.xs)
                  /\ \A i \in 1..Len(v.xs) :
                         LET child == index + 1
                                 + NodeCountFrom(SubSeq(v.xs, 1, i - 1), 1)
                         IN  /\ RefSlot(bytes, slots, w, i) = child
                             /\ ContainerEncoded(bytes, v.xs[i], child)
             [] v.k = "dict" ->
                  /\ c.n = Len(v.kvs)
                  /\ \A i \in 1..Len(v.kvs) :
                         LET before == [j \in 1..(i - 1) |->
                                           VList(<<v.kvs[j][1], v.kvs[j][2]>>)]
                             key == index + 1 + NodeCountFrom(before, 1)
                                        - (i - 1)
                             val == key + NodeCount(v.kvs[i][1])
                         IN  /\ RefSlot(bytes, slots, w, i) = key
                             /\ RefSlot(bytes, slots + w * c.n, w, i) = val
                             /\ ContainerEncoded(bytes, v.kvs[i][1], key)
                             /\ ContainerEncoded(bytes, v.kvs[i][2], val)
             [] OTHER -> TRUE

\* C18: in every file generate returns, a list of n children is its
\* type/length prefix followed by n slots of ref_size = 2 bytes, slot i
\* holding big-endian the offset-table index of child i, and a dict of n
\* entries is its prefix followed by n key slots and n value slots in the
\* same order, the objects being enumerated key0, val0, key1, val1, ...;
\* this holds of the containers inside containers too, and the ref_size of
\* the trailer is the width of the slots.
C18_ContainerEncoding ==
    Generated /\ py_obj.k \in {"list", "dict"} =>
        /\ trailer_of(plist.bytes).ref_size = 2
        /\ ContainerEncoded(plist.bytes, py_obj, 0)

\* C18: generate returned the file of a list whose first child is a dict
\* with descendants; the slot of the second child holds the index 6.
C18_Witness ==
    /\ Generated
    /\ py_obj.k = "list"
    /\ Len(py_obj.xs) = 2
    /\ py_obj.xs[1].k = "dict"
    /\ NodeCount(py_obj.xs[1]) = 5
    /\ py_obj.xs[2].k = "list"
    /\ SubSeq(plist.bytes, bplist_header_length + 1, bplist_header_length + 5)
           = <<plist_type_array + 2, 0, 1, 0, 6>>

(***************************************************************************)
(* C19                                                                     *)
(***************************************************************************)
\* generate was called on an int (of 64 bits, signed).
IntGiven == op \in {"generate", "roundtrip"} /\ py_obj.k = "int"

\* The int object of the 64-bit pattern v by the rule of widths: 8 bytes
\* when a bit of the high 32 is set, else the least of 1, 2, 4 bytes that
\* holds v.
IntObject(v) ==
    IF SubSeq(v, 1, 4) # <<0, 0, 0, 0>> THEN <<plist_type_int64>> \o v
    ELSE IF SubSeq(v, 5, 6) # <<0, 0>>
    THEN <<plist_type_int32>> \o SubSeq(v, 5, 8)
    ELSE IF v[7] # 0 THEN <<plist_type_int16>> \o SubSeq(v, 7, 8)
    ELSE <<plist_type_int8, v[8]>>

\* C19: for every signed 64-bit v the object generate writes is the marker
\* 0x13 and 8 bytes when v, as an unsigned number, has a bit set in the high
\* 32 bits (every negative v has), and otherwise the least of 0x10
\* (v <= 0xFF), 0x11 (v <= 0xFFFF), 0x12 (v <= 0xFFFFFFFF) that holds v,
\* the payload big-endian; and parse of it returns v.
C19_IntPacking ==
    IntGiven =>
        /\ plist.st = "ok"
        /\ SubSeq(plist.bytes, bplist_header_length + 1,
                  Nat64(trailer_of(plist.bytes).offset_table_offset))
               = IntObject(py_obj.i)
        /\ op = "roundtrip" => result.st = "ok" /\ result.v = py_obj

\* C19: the int -1 went through generate, as nine bytes, and parse.
C19_Witness ==
    /\ IntGiven
    /\ op = "roundtrip"
    /\ py_obj.i = MinusOne
    /\ IsNeg64(py_obj.i)
    /\ SubSeq(plist.bytes, bplist_header_length + 1, bplist_header_length + 9)
           = <<plist_type_int64, 255, 255, 255, 255, 255, 255, 255, 255>>
    /\ result.v = py_obj

(***************************************************************************)
(* C20                                                                     *)
(***************************************************************************)
\* bytes, at most 16 of them, extended with zero bytes in front to 16.
Pad16(bytes) == [i \in 1..(16 - Len(bytes)) |-> 0] \o bytes

\* parse decoded the one object at offset off of the input, a uid object
\* whose width bytes all lie before the trailer.
UidDecodedAt(off) ==
    /\ TrailerRead
    /\ \E index \in {trailer_of(input.data).top_object} :
           result.dec = {<<index, U64(off)>>}
    /\ HighNibble(input.data[off + 1]) = plist_type_uid
    /\ off + 1 + LowNibble(input.data[off + 1]) + 1
           <= Len(input.data) - sizeof_bplist_trailer

\* C20: for a uid marker 0x80 | k parse returns the uid whose value is the
\* unsigned big-endian number of exactly the k + 1 bytes after the marker,
\* for every k from 0 to 15.
C20_UidWidth ==
    \A off \in bplist_header_length..(Len(input.data) - 1) :
        UidDecodedAt(off) =>
            LET width == LowNibble(input.data[off + 1]) + 1
            IN  /\ result.st = "ok"
                /\ result.v.k = "uid"
                /\ Pad16(result.v.u)
                       = Pad16(SubSeq(input.data, off + 2, off + 1 + width))

\* C20: parse of the uid object 82 01 02 03, of three bytes, returned the
\* uid of the eight bytes 01 02 03 83 01 02 03 04.
C20_ThreeReadAsEight ==
    /\ op = "parse"
    /\ \E off \in bplist_header_length..(Len(input.data) - 1) :
           /\ UidDecodedAt(off)
           /\ SubSeq(input.data, off + 1, off + 9)
                  = <<plist_type_uid + 2, 1, 2, 3, plist_type_uid + 3, 1, 2,
                      3, 4>>
    /\ result.st = "ok"
    /\ result.v = VUid(<<1, 2, 3, plist_type_uid + 3, 1, 2, 3, 4>>)

(***************************************************************************)
(* C21                                                                     *)
(***************************************************************************)
\* The references of the object at offset off of a file: the slots of an
\* array, the key and value slots of a dict, none for another object.
RefsAt(bytes, off) ==
    LET w == trailer_of(bytes).ref_size
        tag == HighNibble(bytes[off + 1])
        c == CountAt(bytes, off)
        n == IF tag = plist_type_array THEN c.n
             ELSE IF tag = plist_type_dict THEN 2 * c.n
             ELSE 0
    IN  {RefSlot(bytes, off + c.used, w, j) : j \in 1..n}

\* C21: in every buffer generate returns the offsets of the offset table
\* are strictly increasing in the order of enumeration, the first, that of
\* the top object of index 0, is 8, every offset is below
\* offset_table_offset, every reference written in an array or a dict is
\* below num_objects, and each object starts where the bytes of the object
\* before it end.
C21_GeneratedInvariants ==
    Generated =>
        LET b == plist.bytes
            t == trailer_of(b)
            num == Nat64(t.num_objects)
        IN  /\ num >= 1
            /\ t.top_object = Zero64
            /\ OffsetOf(b, 0) = bplist_header_length
            /\ \A i \in 0..(num - 1) :
                   /\ OffsetOf(b, i) < Nat64(t.offset_table_offset)
                   /\ \A r \in RefsAt(b, OffsetOf(b, i)) : r < num
            /\ \A i \in 1..(num - 1) :
                   /\ OffsetOf(b, i - 1) < OffsetOf(b, i)
                   /\ OffsetOf(b, i)
                          = OffsetOf(b, i - 1)
                            + ObjectExtent(b, OffsetOf(b, i - 1), t.ref_size)

\* C21: generate returned the buffer of a dict of 16 entries, 33 objects
\* whose references run up to 32.
C21_Witness ==
    /\ Generated
    /\ py_obj.k = "dict"
    /\ Len(py_obj.kvs) = 16
    /\ Nat64(trailer_of(plist.bytes).num_objects) = 33
    /\ RefsAt(plist.bytes, bplist_header_length) = 1..32

====
